---- MODULE Spec2Model ----
(***************************************************************************)
(* Delivery scheduling and conversation state engine of the HealthyText    *)
(* SMS system: MessageScheduler (src/adminSummary.js), MessageInjector     *)
(* (src/messageInjector.js), ResponseHandler (src/unnamed/part_008) and    *)
(* the sendMessage transport wrapper (src/unnamed/part_005).               *)
(*                                                                         *)
(* Time is a count of minutes (UTC).  Minute 0 is a Sunday 00:00 UTC.      *)
(* A timezone is a fixed offset from UTC (standard time, no DST change     *)
(* inside the modelled horizon).  A message body is a sequence of tokens:  *)
(* single characters, and the two atoms "{name}" and "Reply:".             *)
(***************************************************************************)
EXTENDS Integers, Sequences, FiniteSets, TLC

(***************************************************************************)
(* Encodings of JavaScript / SQL values                                    *)
(***************************************************************************)
NULL == "NULL"                \* SQL NULL / JS null in a text column
NoTime == 0 - 1               \* SQL NULL in a timestamp column
NoPosition == 0               \* position: null      (algorithm selector)
NullNumber == 0               \* messages.number IS NULL
UndefinedPosition == 0 - 2    \* a property the object does not have

MinPerHour == 60
MinPerDay == 24 * MinPerHour

(***************************************************************************)
(* Bounds of the model                                                     *)
(***************************************************************************)
MaxAdvances == 5      \* instants the clock passes through after the first
MaxInjections == 1    \* rows of pending_messages from which no inject call is made
MaxHistory == 5       \* rows of message_history over a run
MaxDbFailures == 1    \* failures of the database over a run
MaxDay == 320         \* largest day offset since the join given to the evaluator
MaxReplies == 1       \* inbound texts handled over a run
MaxPending == 4       \* rows of pending_messages once an overlapping inject call has queued
MaxTimers == 2        \* first checks of start() not yet run
MaxSyncs == 1         \* WordPress subscribers synchronised over a run

(***************************************************************************)
(* moment().tz(zone): local wall clock                                     *)
(***************************************************************************)
Timezones == {"America/Chicago", "America/Los_Angeles"}

TzOffset(tz) ==
  CASE tz = "America/Chicago"     -> 0 - 6 * MinPerHour
    [] tz = "America/Los_Angeles" -> 0 - 8 * MinPerHour

LocalMinutes(tz, t) == t + TzOffset(tz)

\* moment().tz(tz).hour()
LocalHour(tz, t) == (LocalMinutes(tz, t) % MinPerDay) \div MinPerHour

\* minute within the local hour
LocalMinute(tz, t) == LocalMinutes(tz, t) % MinPerHour

\* moment().tz(tz).day(), 0 = Sunday
LocalWeekday(tz, t) == (LocalMinutes(tz, t) \div MinPerDay) % 7

\* moment().tz(tz).format('YYYY-MM-DD'), as a day number
LocalDate(tz, t) == LocalMinutes(tz, t) \div MinPerDay

\* new Date().toISOString().split('T')[0], as a day number
UtcDate(t) == t \div MinPerDay

\* a.diff(b, 'days') rounded to the nearest day instead of truncated
DiffDaysRounded(a, b) ==
  IF a >= b THEN (a - b + MinPerDay \div 2) \div MinPerDay
  ELSE 0 - ((b - a + MinPerDay \div 2) \div MinPerDay)

\* a.diff(b, 'days'): whole days, truncated towards zero
DiffDays(a, b) ==
  IF a >= b THEN (a - b) \div MinPerDay ELSE 0 - ((b - a) \div MinPerDay)

(***************************************************************************)
(* Message bodies                                                          *)
(***************************************************************************)
IsPrefixAt(s, sub, i) ==
  \A k \in 1..Len(sub) : i + k - 1 <= Len(s) /\ s[i + k - 1] = sub[k]

\* String.prototype.includes
Includes(s, sub) == \E i \in 1..(Len(s) + 1) : IsPrefixAt(s, sub, i)

IsNameSeparator(c) == c \in {",", " "}

RECURSIVE DropWhileSeparator(_)
DropWhileSeparator(s) ==
  IF s # <<>> /\ IsNameSeparator(Head(s)) THEN DropWhileSeparator(Tail(s)) ELSE s

\* .replace(/\{name\}/g, firstName)
RECURSIVE ReplaceName(_, _)
ReplaceName(s, firstName) ==
  IF s = <<>> THEN <<>>
  ELSE IF Head(s) = "{name}" THEN <<firstName>> \o ReplaceName(Tail(s), firstName)
  ELSE <<Head(s)>> \o ReplaceName(Tail(s), firstName)

\* .replace(/\{name\}[,\s]*/g, '')
RECURSIVE StripName(_)
StripName(s) ==
  IF s = <<>> THEN <<>>
  ELSE IF Head(s) = "{name}" THEN StripName(DropWhileSeparator(Tail(s)))
  ELSE <<Head(s)>> \o StripName(Tail(s))

\* .replace(/\s+/g, ' ')
RECURSIVE CollapseSpaces(_)
CollapseSpaces(s) ==
  IF s = <<>> THEN <<>>
  ELSE IF Head(s) = " " /\ Tail(s) # <<>> /\ Head(Tail(s)) = " "
       THEN CollapseSpaces(Tail(s))
  ELSE <<Head(s)>> \o CollapseSpaces(Tail(s))

\* .trim()
RECURSIVE TrimLeft(_)
TrimLeft(s) == IF s # <<>> /\ Head(s) = " " THEN TrimLeft(Tail(s)) ELSE s

RECURSIVE TrimRight(_)
TrimRight(s) ==
  IF s # <<>> /\ s[Len(s)] = " " THEN TrimRight(SubSeq(s, 1, Len(s) - 1)) ELSE s

Trim(s) == TrimRight(TrimLeft(s))

personalizeMessage(messageText, firstName) ==
  IF messageText = <<>> THEN <<>>
  ELSE IF firstName # NULL THEN ReplaceName(messageText, firstName)
  ELSE Trim(CollapseSpaces(StripName(messageText)))

(***************************************************************************)
(* The message catalog (messages.db)                                       *)
(***************************************************************************)
PlainBody == <<"H", "i", " ", "{name}", ",", " ", "g", "o", "!">>
InteractiveBody == <<"{name}", " ", "A", ")", " ", "x", " ", "B", ")", " ", "y">>
ReplyBody == <<"O", "k", ".">>

Message(number, protocol, category, body, active) ==
  [number |-> number, protocol |-> protocol, category |-> category,
   message |-> body, active |-> active]

InitialMessages ==
  [id \in {"7", "30", "mb30", "alg1", "alg2", "off1", "mb1", "pt1", "ptmb1", "30b",
           "34453cds", "3452cds3", "help_response", "anxiety_response"} |->
     CASE id = "7"   -> Message(7, "Elevate", "Trial", PlainBody, 1)
       [] id = "30"  -> Message(30, "Elevate", "Interactive", InteractiveBody, 1)
       [] id = "mb30" -> Message(30, "MindBoost", "Interactive", InteractiveBody, 1)
       [] id = "alg1" -> Message(NullNumber, "Elevate", "Motivation", PlainBody, 1)
       [] id = "alg2" -> Message(NullNumber, "Elevate", "Motivation", InteractiveBody, 1)
       [] id = "off1" -> Message(NullNumber, "Elevate", "Motivation", PlainBody, 0)
       [] id = "mb1"  -> Message(NullNumber, "MindBoost", "Motivation", PlainBody, 1)
       [] id = "pt1"  -> Message(NullNumber, "ALL", "Post-Trial", PlainBody, 1)
       [] id = "ptmb1" -> Message(NullNumber, "ALL", "Post-Trial-Phase1", PlainBody, 1)
       [] id = "30b"  -> Message(NullNumber, "Elevate", "Response", ReplyBody, 1)
       [] id = "34453cds" -> Message(NullNumber, "ALL", "Command", ReplyBody, 1)
       [] id = "3452cds3" -> Message(NullNumber, "ALL", "Command", ReplyBody, 1)
       [] id = "help_response" -> Message(NullNumber, "ALL", "Crisis", ReplyBody, 1)
       [] id = "anxiety_response" ->
            Message(NullNumber, "ALL", "Crisis", InteractiveBody, 1)]

(***************************************************************************)
(* Eligibility evaluator (MessageScheduler)                                *)
(***************************************************************************)
Due(messageType, position, messageId) ==
  [due |-> TRUE, messageType |-> messageType, position |-> position,
   messageId |-> messageId, reason |-> NULL]

NotDue(reason) ==
  [due |-> FALSE, messageType |-> NULL, position |-> UndefinedPosition,
   messageId |-> NULL, reason |-> reason]

\* phase 1 with its third day a day late
phase1DaysShifted == <<8, 10, 14, 17>>

phase1Days == <<8, 10, 13, 17>>
phase2Days == {25, 33, 41}
phase3Days == {71, 101, 131}

\* phase1Days.indexOf(d) + 1
Phase1Order(d) == CHOOSE i \in 1..Len(phase1Days) : phase1Days[i] = d

Phase1MessageId(messageOrder) ==
  CASE messageOrder = 1 -> "ptmb1" [] messageOrder = 2 -> "ptmb2"
    [] messageOrder = 3 -> "ptmb3" [] messageOrder = 4 -> "ptmb4"

\* checkPostTrialSchedule with phase 4 starting a period late: > 191 for >= 191
checkPostTrialScheduleLate(user, daysSinceJoined) ==
  IF \E i \in 1..Len(phase1Days) : phase1Days[i] = daysSinceJoined
    THEN Due("post-trial-phase1", UndefinedPosition,
             Phase1MessageId(Phase1Order(daysSinceJoined)))
  ELSE IF daysSinceJoined \in phase2Days
    THEN Due("post-trial-phase2", UndefinedPosition, NULL)
  ELSE IF daysSinceJoined \in phase3Days
    THEN Due("post-trial-phase3", UndefinedPosition, NULL)
  ELSE IF daysSinceJoined > 191 /\ (daysSinceJoined - 191) % 60 = 0
    THEN Due("post-trial-phase4", UndefinedPosition, NULL)
  ELSE NotDue("Not scheduled for post-trial message today")

checkPostTrialSchedule(user, daysSinceJoined) ==
  IF \E i \in 1..Len(phase1Days) : phase1Days[i] = daysSinceJoined
    THEN Due("post-trial-phase1", UndefinedPosition,
             Phase1MessageId(Phase1Order(daysSinceJoined)))
  ELSE IF daysSinceJoined \in phase2Days
    THEN Due("post-trial-phase2", UndefinedPosition, NULL)
  ELSE IF daysSinceJoined \in phase3Days
    THEN Due("post-trial-phase3", UndefinedPosition, NULL)
  ELSE IF daysSinceJoined >= 191 /\ (daysSinceJoined - 191) % 60 = 0
    THEN Due("post-trial-phase4", UndefinedPosition, NULL)
  ELSE NotDue("Not scheduled for post-trial message today")

isUserDueForMessage(user, t) ==
  LET lastMessageDate == IF user.last_message_sent # NoTime
                           THEN user.last_message_sent ELSE user.date_joined
      daysSinceLastMessage == DiffDays(t, lastMessageDate)
      daysSinceJoined == DiffDays(t, user.date_joined)
  IN IF user.user_type = "trial"
       THEN IF user.trial_messages_sent >= 7
              THEN checkPostTrialSchedule(user, daysSinceJoined)
            ELSE IF daysSinceLastMessage >= 1
              THEN Due("trial", user.trial_messages_sent + 1, NULL)
            ELSE NotDue("Not due for message yet")
     ELSE IF user.user_type = "subscriber"
       THEN IF user.current_sequence_position <= 30
              THEN IF daysSinceLastMessage >= 1
                     THEN Due("sequence", user.current_sequence_position, NULL)
                   ELSE NotDue("Not due for message yet")
            ELSE IF daysSinceLastMessage >= 2
              THEN Due("algorithm", NoPosition, NULL)
            ELSE NotDue("Not due for message yet")
     ELSE NotDue("Not due for message yet")

\* position.messageId on a position that is undefined is a TypeError
getNextMessageThrows(messageType, position) ==
  messageType = "post-trial-phase1" /\ position = UndefinedPosition

\* getNextMessage without the protocol = ? of the numbered query
getNextMessageAnyProgram(msgs, user, messageType, position) ==
  IF messageType \in {"trial", "sequence"}
    THEN {id \in DOMAIN msgs : msgs[id].number = position /\ msgs[id].active = 1}
  ELSE IF messageType = "algorithm"
    THEN {id \in DOMAIN msgs : msgs[id].number = NullNumber
                               /\ msgs[id].protocol = user.protocol
                               /\ msgs[id].active = 1}
  ELSE IF messageType = "post-trial-phase1"
    THEN {}
  ELSE {id \in DOMAIN msgs : msgs[id].category = "Post-Trial"
                             /\ msgs[id].active = 1}

\* getNextMessage without the active = 1 of the algorithm query
getNextMessageInactive(msgs, user, messageType, position) ==
  IF messageType \in {"trial", "sequence"}
    THEN {id \in DOMAIN msgs : msgs[id].number = position
                               /\ msgs[id].protocol = user.protocol
                               /\ msgs[id].active = 1}
  ELSE IF messageType = "algorithm"
    THEN {id \in DOMAIN msgs : msgs[id].number = NullNumber
                               /\ msgs[id].protocol = user.protocol}
  ELSE IF messageType = "post-trial-phase1"
    THEN {}
  ELSE {id \in DOMAIN msgs : msgs[id].category = "Post-Trial"
                             /\ msgs[id].active = 1}

\* the ids of the rows the query of getNextMessage can return
getNextMessage(msgs, user, messageType, position) ==
  IF messageType \in {"trial", "sequence"}
    THEN {id \in DOMAIN msgs : msgs[id].number = position
                               /\ msgs[id].protocol = user.protocol
                               /\ msgs[id].active = 1}
  ELSE IF messageType = "algorithm"
    THEN {id \in DOMAIN msgs : msgs[id].number = NullNumber
                               /\ msgs[id].protocol = user.protocol
                               /\ msgs[id].active = 1}
  ELSE IF messageType = "post-trial-phase1"
    THEN {}
  ELSE {id \in DOMAIN msgs : msgs[id].category = "Post-Trial"
                             /\ msgs[id].active = 1}

(***************************************************************************)
(* The stores.  A database value db is the record of the five tables.      *)
(***************************************************************************)
VARIABLES
  now,               \* the wall clock, minutes UTC
  users,             \* users table: phone_number -> row
  daily_limits,      \* daily_limits table: <<phone_number, date>> -> messages_sent
  message_history,   \* message_history table, in rowid order
  messages,          \* messages table: id -> row
  pending_messages,  \* pending_messages table: id (1..Len) -> row
  schedBatch,        \* rows of the tick in flight still to be checked
  injQueue,          \* rows of the drain in flight still to be processed
  injQueueB,         \* the same, of an inject call made while that drain is in flight
  injResults,        \* what the inject call whose drain is injQueue returns
  last,              \* what the last handler step did and returned
  verdict,           \* the last answer of the eligibility evaluator called alone
  dbFailures,        \* failures of the database so far
  inbound,           \* inbound texts and WordPress subscribers handled so far
  scheduler          \* isRunning and cronJob of the MessageScheduler, and its timers

vars == <<now, users, daily_limits, message_history, messages, pending_messages,
          schedBatch, injQueue, injQueueB, injResults, last, verdict, dbFailures, inbound,
          scheduler>>

DB == [users |-> users, daily_limits |-> daily_limits,
       message_history |-> message_history, messages |-> messages,
       pending_messages |-> pending_messages]

DailyCap == 4
WindowOpenHour == 9
WindowCloseHour == 18
RestDay == 0

\* row ? row.messages_sent : 0
DailyCount(limits, phoneNumber, date) ==
  IF <<phoneNumber, date>> \in DOMAIN limits THEN limits[<<phoneNumber, date>>] ELSE 0

\* INSERT OR REPLACE ... COALESCE((SELECT messages_sent ...), 0) + 1
DailyIncrement(limits, phoneNumber, date) ==
  [k \in DOMAIN limits \cup {<<phoneNumber, date>>} |->
     IF k = <<phoneNumber, date>> THEN DailyCount(limits, phoneNumber, date) + 1
     ELSE limits[k]]

\* userRow?.timezone || 'America/Chicago'
UserTimezone(db, phoneNumber) ==
  IF phoneNumber \in DOMAIN db.users THEN db.users[phoneNumber].timezone
  ELSE "America/Chicago"

\* MessageScheduler.checkDailyLimit: messagesSentToday
checkDailyLimit(db, phoneNumber, t) ==
  DailyCount(db.daily_limits, phoneNumber,
             LocalDate(UserTimezone(db, phoneNumber), t))

\* the interactive test of sendMessage
IsInteractiveText(messageText) ==
  Includes(messageText, <<"A", ")">>) \/ Includes(messageText, <<"Reply:">>)

HistoryRow(phoneNumber, messageId) ==
  [phone_number |-> phoneNumber, message_id |-> messageId, user_responded |-> 0]

\* sendMessage of the application, once the transport has answered ok or not
sendMessage(db, phoneNumber, messageText, messageId, t, ok) ==
  IF ~ok THEN db
  ELSE LET recorded ==
             [db EXCEPT !.message_history =
                Append(@, HistoryRow(phoneNumber, messageId))]
       IN IF messageId # NULL /\ IsInteractiveText(messageText)
             /\ phoneNumber \in DOMAIN db.users
            THEN [recorded EXCEPT
                    !.users[phoneNumber].awaiting_response = messageId,
                    !.users[phoneNumber].awaiting_response_since = t]
          ELSE recorded

\* the UPDATE users of updateUserProgress
ProgressUserRow(row, messageType, t) ==
  LET sent == [row EXCEPT !.total_messages_sent = @ + 1, !.last_message_sent = t]
  IN IF messageType = "trial"
       THEN [sent EXCEPT !.trial_messages_sent = @ + 1]
     ELSE IF messageType = "sequence"
       THEN [sent EXCEPT !.current_sequence_position = @ + 1]
     ELSE sent

\* updateUserProgress writing counters computed from the row the tick loaded:
\* SET total_messages_sent = ?, current_sequence_position = ?
updateUserProgressFromLoadedRow(db, user, messageInfo, t, fail) ==
  LET phone == user.phone_number
      today == LocalDate(user.timezone, t)
      progressed == ProgressUserRow(user, messageInfo.messageType, t)
      updated == IF phone \in DOMAIN db.users
                   THEN [db EXCEPT
                           !.users[phone].total_messages_sent = progressed.total_messages_sent,
                           !.users[phone].last_message_sent = t,
                           !.users[phone].trial_messages_sent = progressed.trial_messages_sent,
                           !.users[phone].current_sequence_position =
                              progressed.current_sequence_position]
                 ELSE db
  IN IF fail = "updateUsers" THEN [db |-> db, threw |-> TRUE]
     ELSE IF fail = "updateDaily" THEN [db |-> updated, threw |-> TRUE]
     ELSE [db |-> [updated EXCEPT !.daily_limits =
                     DailyIncrement(@, phone, today)],
           threw |-> FALSE]

\* fail names the statement of the handler whose database call is rejected
updateUserProgress(db, user, messageInfo, t, fail) ==
  LET phone == user.phone_number
      today == LocalDate(user.timezone, t)
      updated == IF phone \in DOMAIN db.users
                   THEN [db EXCEPT !.users[phone] =
                           ProgressUserRow(@, messageInfo.messageType, t)]
                 ELSE db
  IN IF fail = "updateUsers" THEN [db |-> db, threw |-> TRUE]
     ELSE IF fail = "updateDaily" THEN [db |-> updated, threw |-> TRUE]
     ELSE [db |-> [updated EXCEPT !.daily_limits =
                     DailyIncrement(@, phone, today)],
           threw |-> FALSE]

\* what a handler step did: the transport call it made (called, messageId, sent:
\* the call succeeded and the step completed) and what it returned
StepResult(op, phone, sent, reason, called, messageId, threw) ==
  [op |-> op, phone |-> phone, sent |-> sent, reason |-> reason,
   called |-> called, messageId |-> messageId, threw |-> threw,
   action |-> NULL, text |-> <<>>]

NoStep == StepResult("none", <<>>, FALSE, NULL, FALSE, NULL, FALSE)

SchedFailures == {"none", "checkDailyLimit", "getNextMessage", "updateUsers",
                  "updateDaily"}

\* userDay === 0 written with the ISO weekday of Sunday
IsRestDayIso(userDay) == userDay = 7

\* userDay === 0
IsRestDay(userDay) == userDay = RestDay

\* the rows getNextMessage can resolve to; NULL when the query finds no row
NextMessageChoices(db, user, isDue) ==
  LET rows == getNextMessage(db.messages, user, isDue.messageType, isDue.position)
  IN IF rows = {} THEN {NULL} ELSE rows

\* checkUserForMessage on the row `user` of the batch, at instant t; ok is the
\* transport's answer, pick the row the catalog query returns
checkUserForMessage(db, user, t, ok, fail, pick) ==
  LET phone == user.phone_number
      userHour == LocalHour(user.timezone, t)
      userDay == LocalWeekday(user.timezone, t)
      isDue == isUserDueForMessage(user, t)
      skip(reason) ==
        [db |-> db, result |-> StepResult("tick", phone, FALSE, reason, FALSE, NULL, FALSE)]
      throw ==
        [db |-> db, result |-> StepResult("tick", phone, FALSE, "error", FALSE, NULL, TRUE)]
  IN IF IsRestDay(userDay) THEN skip("Sunday rest day")
     ELSE IF userHour < WindowOpenHour \/ userHour >= WindowCloseHour
       THEN skip("Outside sending hours")
     ELSE IF fail = "checkDailyLimit" THEN throw
     ELSE IF checkDailyLimit(db, phone, t) >= DailyCap
       THEN skip("Daily limit reached (4 messages)")
     ELSE IF ~isDue.due THEN skip(isDue.reason)
     ELSE IF fail = "getNextMessage"
             \/ getNextMessageThrows(isDue.messageType, isDue.position)
       THEN throw
     ELSE IF pick = NULL THEN skip("No message found for user position")
     ELSE LET text == personalizeMessage(db.messages[pick].message, user.first_name)
              afterSend == sendMessage(db, phone, text, pick, t, ok)
              progress == updateUserProgress(afterSend, user, isDue, t, fail)
          IN IF ~ok
               THEN [db |-> afterSend,
                     result |-> StepResult("tick", phone, FALSE, "Send failed", TRUE, pick, FALSE)]
             ELSE [db |-> progress.db,
                   result |-> StepResult("tick", phone, ~progress.threw,
                                         IF progress.threw THEN "error" ELSE NULL,
                                         TRUE, pick, progress.threw)]

\* a sequence of the rows of S in ascending date_joined
RECURSIVE OrderByDateJoined(_)
OrderByDateJoined(S) ==
  IF S = {} THEN <<>>
  ELSE LET first == CHOOSE r \in S : \A o \in S : r.date_joined <= o.date_joined
       IN <<first>> \o OrderByDateJoined(S \ {first})

\* WHERE subscription_status NOT IN ('stopped', 'expired') ORDER BY date_joined
getEligibleUsers(db) ==
  OrderByDateJoined({db.users[p] : p \in
     {q \in DOMAIN db.users : db.users[q].subscription_status \notin {"stopped", "expired"}}})

\* a loop that ends at the first recipient whose check threw
RestOfBatchUntilError(batch, result) == IF result.threw THEN <<>> ELSE Tail(batch)

\* for (const user of users) { try { ... } catch { log } }: the loop goes on to
\* the next row of the batch whatever the check of this one returned or threw
RestOfBatch(batch, result) == Tail(batch)

(***************************************************************************)
(* MessageInjector                                                         *)
(***************************************************************************)
\* INSERT OR REPLACE INTO messages: an active, unnumbered, 'Manual' row
addMessageToDatabase(db, messageId, messageText, protocol) ==
  [db EXCEPT !.messages =
     [id \in DOMAIN @ \cup {messageId} |->
        IF id = messageId THEN Message(NullNumber, protocol, "Manual", messageText, 1)
        ELSE @[id]]]

\* WHERE subscription_status NOT IN ('stopped','expired') [AND protocol = ?]
getActiveUsers(db, protocol) ==
  OrderByDateJoined({db.users[p] : p \in
     {q \in DOMAIN db.users :
        /\ db.users[q].subscription_status \notin {"stopped", "expired"}
        /\ (protocol # "ALL" => db.users[q].protocol = protocol)}})

PendingRow(id, phoneNumber, messageId, priority, t) ==
  [id |-> id, phone_number |-> phoneNumber, message_id |-> messageId,
   priority |-> priority, created_timestamp |-> t, status |-> "pending"]

\* one INSERT INTO pending_messages per user; the inserts of the users in
\* `rejected` fail and are only logged
RECURSIVE queueMessageForUsers(_, _, _, _, _, _)
queueMessageForUsers(db, cohort, messageId, priority, t, rejected) ==
  IF cohort = <<>> THEN db
  ELSE LET user == Head(cohort)
           queued ==
             IF user.phone_number \in rejected THEN db
             ELSE [db EXCEPT !.pending_messages =
                     Append(@, PendingRow(Len(@) + 1, user.phone_number,
                                          messageId, priority, t))]
       IN queueMessageForUsers(queued, Tail(cohort), messageId, priority, t, rejected)

\* ORDER BY pm.created_timestamp ASC, pm.priority ASC
PrecedesByCreation(a, b) ==
  \/ a.created_timestamp < b.created_timestamp
  \/ a.created_timestamp = b.created_timestamp /\ a.priority < b.priority
  \/ a.created_timestamp = b.created_timestamp /\ a.priority = b.priority /\ a.id <= b.id

\* ORDER BY pm.priority ASC, pm.created_timestamp ASC (rowid decides a tie)
Precedes(a, b) ==
  \/ a.priority < b.priority
  \/ a.priority = b.priority /\ a.created_timestamp < b.created_timestamp
  \/ a.priority = b.priority /\ a.created_timestamp = b.created_timestamp /\ a.id <= b.id

RECURSIVE OrderByPriority(_)
OrderByPriority(S) ==
  IF S = {} THEN <<>>
  ELSE LET first == CHOOSE r \in S : \A o \in S : Precedes(r, o)
       IN <<first>> \o OrderByPriority(S \ {first})

\* pm.* joined with first_name, timezone, user_type of the user
JoinedRow(db, pm) ==
  [id |-> pm.id, phone_number |-> pm.phone_number, message_id |-> pm.message_id,
   priority |-> pm.priority, created_timestamp |-> pm.created_timestamp,
   first_name |-> db.users[pm.phone_number].first_name,
   timezone |-> db.users[pm.phone_number].timezone,
   user_type |-> db.users[pm.phone_number].user_type]

getPendingInjections(db) ==
  OrderByPriority({JoinedRow(db, db.pending_messages[i]) : i \in
     {j \in 1..Len(db.pending_messages) :
        /\ db.pending_messages[j].status = "pending"
        /\ db.pending_messages[j].phone_number \in DOMAIN db.users}})

\* MessageInjector.checkDailyLimit: messagesSentToday
injectorCheckDailyLimit(db, phoneNumber, t) ==
  DailyCount(db.daily_limits, phoneNumber, UtcDate(t))

\* isInSendingWindow with hour > 18 for hour >= 18
isInSendingWindowInclusive(userTimezone, t) ==
  LET hour == LocalHour(userTimezone, t)
  IN ~(hour < WindowOpenHour \/ hour > WindowCloseHour)

isInSendingWindow(userTimezone, t) ==
  LET hour == LocalHour(userTimezone, t)
  IN ~(hour < WindowOpenHour \/ hour >= WindowCloseHour)

\* SELECT * FROM messages WHERE id = ? AND active = 1
getMessage(db, messageId) ==
  IF messageId \in DOMAIN db.messages /\ db.messages[messageId].active = 1
    THEN messageId ELSE NULL

updateUserAfterInjection(db, phoneNumber, t, fail) ==
  LET today == UtcDate(t)
      updated == IF phoneNumber \in DOMAIN db.users
                   THEN [db EXCEPT !.users[phoneNumber].total_messages_sent = @ + 1,
                                   !.users[phoneNumber].last_message_sent = t]
                 ELSE db
  IN IF fail = "updateUsers" THEN [db |-> db, threw |-> TRUE]
     ELSE IF fail = "updateDaily" THEN [db |-> updated, threw |-> TRUE]
     ELSE [db |-> [updated EXCEPT !.daily_limits =
                     DailyIncrement(@, phoneNumber, today)],
           threw |-> FALSE]

\* UPDATE pending_messages SET status = ? WHERE id = ?
markInjectionProcessed(db, injectionId, status) ==
  IF injectionId \in 1..Len(db.pending_messages)
    THEN [db EXCEPT !.pending_messages[injectionId].status = status]
  ELSE db

InjFailures == {"none", "checkDailyLimit", "getMessage", "updateUsers",
                "updateDaily", "markProcessed"}

processSingleInjection(db, pendingMessage, t, ok, fail) ==
  LET phone == pendingMessage.phone_number
      message == getMessage(db, pendingMessage.message_id)
      skip(reason) ==
        [db |-> db, result |-> StepResult("drain", phone, FALSE, reason, FALSE, NULL, FALSE)]
      throw ==
        [db |-> db, result |-> StepResult("drain", phone, FALSE, "error", FALSE, NULL, TRUE)]
  IN IF fail = "checkDailyLimit" THEN throw
     ELSE IF injectorCheckDailyLimit(db, phone, t) >= DailyCap
       THEN skip("Daily limit reached (4 messages)")
     ELSE IF ~isInSendingWindow(pendingMessage.timezone, t)
       THEN skip("Outside sending hours (9 AM - 6 PM)")
     ELSE IF fail = "getMessage" THEN throw
     ELSE IF message = NULL THEN skip("Message not found in database")
     ELSE LET text == personalizeMessage(db.messages[message].message,
                                         pendingMessage.first_name)
              afterSend == sendMessage(db, phone, text, pendingMessage.message_id, t, ok)
              update == updateUserAfterInjection(afterSend, phone, t, fail)
          IN IF ~ok
               THEN [db |-> afterSend,
                     result |-> StepResult("drain", phone, FALSE, "Send failed", TRUE,
                                           pendingMessage.message_id, FALSE)]
             ELSE [db |-> update.db,
                   result |-> StepResult("drain", phone, ~update.threw,
                                         IF update.threw THEN "error" ELSE NULL,
                                         TRUE, pendingMessage.message_id, update.threw)]

\* one turn of the loop of processInjectionQueue on the row at the head of the
\* queue; catchFails: the markInjectionProcessed(id, 'failed') of the catch
\* block is rejected too, which ends the drain with the error
processInjectionRow(db, pendingMessage, t, ok, fail, catchFails) ==
  LET single == processSingleInjection(db, pendingMessage, t, ok, fail)
      threw == single.result.threw \/ fail = "markProcessed"
      status == IF single.result.sent THEN "sent" ELSE "skipped"
  IN IF ~threw
       THEN [db |-> markInjectionProcessed(single.db, pendingMessage.id, status),
             result |-> single.result, aborted |-> FALSE]
     ELSE IF ~catchFails
       THEN [db |-> markInjectionProcessed(single.db, pendingMessage.id, "failed"),
             result |-> [single.result EXCEPT !.threw = TRUE], aborted |-> FALSE]
     ELSE [db |-> single.db,
           result |-> [single.result EXCEPT !.threw = TRUE], aborted |-> TRUE]

\* the object injectMessage returns, while it is being built; pendingMessages
\* are the ids of the rows its drain loaded; state tells whether the call is
\* draining, has returned or has thrown
InjectionResults(protocol, usersFound, usersQueued, pendingMessages) ==
  [protocol |-> protocol, usersFound |-> usersFound, usersQueued |-> usersQueued,
   messagesSent |-> 0, messagesSkipped |-> 0, errors |-> 0,
   pendingMessages |-> pendingMessages,
   state |-> IF pendingMessages = {} THEN "returned" ELSE "draining"]

NoResults == [InjectionResults(NULL, 0, 0, {}) EXCEPT !.state = "none"]

\* results.sent++, results.skipped++ and results.errors.push of one turn of the
\* loop: the counters move before markInjectionProcessed is called
countInjection(results, step, fail, isLastRow) ==
  LET counted == ~step.result.threw \/ fail = "markProcessed"
  IN [results EXCEPT
        !.messagesSent = @ + (IF counted /\ step.result.sent THEN 1 ELSE 0),
        !.messagesSkipped = @ + (IF counted /\ ~step.result.sent THEN 1 ELSE 0),
        !.errors = @ + (IF step.result.threw THEN 1 ELSE 0),
        !.state = IF step.aborted THEN "threw"
                  ELSE IF isLastRow THEN "returned" ELSE "draining"]

(***************************************************************************)
(* ResponseHandler                                                         *)
(***************************************************************************)
Digits == {"0", "1", "2", "3", "4", "5", "6", "7", "8", "9"}

\* .replace(/[^\d]/g, '')
RECURSIVE OnlyDigits(_)
OnlyDigits(s) ==
  IF s = <<>> THEN <<>>
  ELSE IF Head(s) \in Digits THEN <<Head(s)>> \o OnlyDigits(Tail(s))
  ELSE OnlyDigits(Tail(s))

normalizePhoneNumber(phoneNumber) ==
  LET digits == OnlyDigits(phoneNumber)
      startsWith1 == digits # <<>> /\ Head(digits) = "1"
  IN IF ~startsWith1 /\ Len(digits) = 10 THEN <<"+", "1">> \o digits
     ELSE <<"+">> \o digits

LowerLetters == <<"a", "b", "c", "d", "e", "f", "g", "h", "i", "j", "k", "l", "m",
                  "n", "o", "p", "q", "r", "s", "t", "u", "v", "w", "x", "y", "z">>
UpperLetters == <<"A", "B", "C", "D", "E", "F", "G", "H", "I", "J", "K", "L", "M",
                  "N", "O", "P", "Q", "R", "S", "T", "U", "V", "W", "X", "Y", "Z">>

UpperChar(c) ==
  IF \E i \in 1..Len(LowerLetters) : LowerLetters[i] = c
    THEN UpperLetters[CHOOSE i \in 1..Len(LowerLetters) : LowerLetters[i] = c]
  ELSE c

LowerChar(c) ==
  IF \E i \in 1..Len(UpperLetters) : UpperLetters[i] = c
    THEN LowerLetters[CHOOSE i \in 1..Len(UpperLetters) : UpperLetters[i] = c]
  ELSE c

\* messageBody.trim().toUpperCase()
CleanMessage(messageBody) ==
  LET trimmed == Trim(messageBody)
  IN [i \in 1..Len(trimmed) |-> UpperChar(trimmed[i])]

STOP == <<"S", "T", "O", "P">>
START == <<"S", "T", "A", "R", "T">>
RESET == <<"R", "E", "S", "E", "T">>

crisisKeywords ==
  [k \in {<<"H", "E", "L", "P">>, <<"A", "N", "X", "I", "E", "T", "Y">>,
          <<"S", "T", "R", "E", "S", "S">>, <<"P", "A", "N", "I", "C">>,
          <<"C", "R", "I", "S", "I", "S">>, <<"P", "O", "S", "I", "T", "I", "V", "E">>,
          <<"A", "F", "F", "I", "R", "M">>, <<"B", "R", "E", "A", "T", "H", "E">>,
          <<"C", "A", "L", "M">>} |->
     CASE k = <<"H", "E", "L", "P">> -> "help_response"
       [] k = <<"A", "N", "X", "I", "E", "T", "Y">> -> "anxiety_response"
       [] k = <<"S", "T", "R", "E", "S", "S">> -> "stress_response"
       [] k = <<"P", "A", "N", "I", "C">> -> "panic_response"
       [] k = <<"C", "R", "I", "S", "I", "S">> -> "crisis_response"
       [] k = <<"P", "O", "S", "I", "T", "I", "V", "E">> -> "positive_response"
       [] k = <<"A", "F", "F", "I", "R", "M">> -> "positive_response"
       [] k = <<"B", "R", "E", "A", "T", "H", "E">> -> "breathe_response"
       [] k = <<"C", "A", "L", "M">> -> "calm_response"]

\* the texts the handler composes itself; none holds "A)" or "Reply:"
FixedText == <<"O", "k">>

OptionLetters == {"A", "B", "C", "D"}

\* the i at which /[A-D]\)/ matches
ParenMatches(s) ==
  {i \in 1..Len(s) : s[i] \in OptionLetters /\ i + 1 <= Len(s) /\ s[i + 1] = ")"}

\* the i at which /[A-D](?=\/|$)/ matches
SlashMatches(s) ==
  {i \in 1..Len(s) : s[i] \in OptionLetters /\ (i = Len(s) \/ s[i + 1] = "/")}

RECURSIVE LettersAt(_, _)
LettersAt(s, positions) ==
  IF positions = {} THEN <<>>
  ELSE LET i == CHOOSE k \in positions : \A o \in positions : k <= o
       IN <<s[i]>> \o LettersAt(s, positions \ {i})

extractResponseOptions(messageText) ==
  IF messageText = <<>> THEN <<>>
  ELSE IF ParenMatches(messageText) # {} THEN LettersAt(messageText, ParenMatches(messageText))
  ELSE IF SlashMatches(messageText) # {} THEN LettersAt(messageText, SlashMatches(messageText))
  ELSE <<>>

\* validOptions.includes(response) taking any single letter for an option
IsValidOptionAnyLetter(validOptions, response) == Len(response) = 1

\* validOptions.includes(response)
IsValidOption(validOptions, response) ==
  Len(response) = 1 /\ \E i \in 1..Len(validOptions) : validOptions[i] = response[1]

\* SELECT * FROM users WHERE phone_number = ?
HasUser(db, phoneNumber) == phoneNumber \in DOMAIN db.users

FirstName(db, phoneNumber) ==
  IF HasUser(db, phoneNumber) THEN db.users[phoneNumber].first_name ELSE NULL

\* stopUser without stopped_at_position = current_sequence_position
stopUserStatusOnly(db, phoneNumber) ==
  IF HasUser(db, phoneNumber)
    THEN [db EXCEPT !.users[phoneNumber].subscription_status = "stopped"]
  ELSE db

stopUser(db, phoneNumber) ==
  IF HasUser(db, phoneNumber)
    THEN [db EXCEPT !.users[phoneNumber].subscription_status = "stopped",
                    !.users[phoneNumber].stopped_at_position =
                       db.users[phoneNumber].current_sequence_position]
  ELSE db

\* startUser without the CASE on user_type
startUserActive(db, phoneNumber) ==
  IF HasUser(db, phoneNumber)
    THEN [db EXCEPT !.users[phoneNumber].subscription_status = "active"]
  ELSE db

startUser(db, phoneNumber) ==
  IF HasUser(db, phoneNumber)
    THEN [db EXCEPT !.users[phoneNumber].subscription_status =
            IF db.users[phoneNumber].user_type = "trial" THEN "trial" ELSE "active"]
  ELSE db

\* resetUser without trial_messages_sent = 0
resetUserPositionOnly(db, phoneNumber) ==
  IF HasUser(db, phoneNumber)
    THEN [db EXCEPT !.users[phoneNumber].current_sequence_position = 1,
                    !.users[phoneNumber].subscription_status = "active"]
  ELSE db

resetUser(db, phoneNumber) ==
  IF HasUser(db, phoneNumber)
    THEN [db EXCEPT !.users[phoneNumber].current_sequence_position = 1,
                    !.users[phoneNumber].trial_messages_sent = 0,
                    !.users[phoneNumber].subscription_status = "active"]
  ELSE db

clearAwaitingResponse(db, phoneNumber) ==
  IF HasUser(db, phoneNumber)
    THEN [db EXCEPT !.users[phoneNumber].awaiting_response = NULL,
                    !.users[phoneNumber].awaiting_response_since = NoTime]
  ELSE db

\* the row with MAX(rowid) among those of the phone and message id
recordInteractiveResponse(db, phoneNumber, messageId) ==
  LET rows == {i \in 1..Len(db.message_history) :
                 /\ db.message_history[i].phone_number = phoneNumber
                 /\ db.message_history[i].message_id = messageId}
  IN IF rows = {} THEN db
     ELSE LET latest == CHOOSE i \in rows : \A o \in rows : o <= i
          IN [db EXCEPT !.message_history[latest].user_responded = 1]

ReplyResult(phone, text, handled, action, called, messageId, ok) ==
  [StepResult("reply", phone, handled, NULL, called, messageId, FALSE)
     EXCEPT !.action = action, !.text = text, !.sent = handled,
            !.reason = IF called /\ ok THEN "delivered" ELSE NULL]

ReplyError(phone, text, called, messageId) ==
  [StepResult("reply", phone, FALSE, "error", called, messageId, TRUE)
     EXCEPT !.text = text]

ReplyFailures == {"none", "getUser", "update"}

\* sendSystemMessage: sends the catalog template when it exists
sendSystemMessage(db, phoneNumber, messageId, t, ok) ==
  IF getMessage(db, messageId) = NULL THEN [db |-> db, called |-> FALSE]
  ELSE [db |-> sendMessage(db, phoneNumber,
                  personalizeMessage(db.messages[messageId].message,
                                     FirstName(db, phoneNumber)),
                  messageId, t, ok),
        called |-> TRUE]

NotHandled(db) == [db |-> db, handled |-> FALSE, result |-> NoStep]

handleSystemCommands(db, phoneNumber, message, t, ok, fail) ==
  IF message = STOP
    THEN IF fail = "update"
           THEN [db |-> db, handled |-> TRUE,
                 result |-> ReplyError(phoneNumber, message, FALSE, NULL)]
         ELSE LET sys == sendSystemMessage(stopUser(db, phoneNumber), phoneNumber,
                                           "34453cds", t, ok)
              IN [db |-> sys.db, handled |-> TRUE,
                  result |-> ReplyResult(phoneNumber, message, TRUE, "stopped",
                                         sys.called, "34453cds", ok)]
  ELSE IF message = START
    THEN IF fail = "update"
           THEN [db |-> db, handled |-> TRUE,
                 result |-> ReplyError(phoneNumber, message, FALSE, NULL)]
         ELSE LET sys == sendSystemMessage(startUser(db, phoneNumber), phoneNumber,
                                           "3452cds3", t, ok)
              IN [db |-> sys.db, handled |-> TRUE,
                  result |-> ReplyResult(phoneNumber, message, TRUE, "started",
                                         sys.called, "3452cds3", ok)]
  ELSE IF message = RESET
    THEN IF ~HasUser(db, phoneNumber) \/ db.users[phoneNumber].user_type # "subscriber"
           THEN [db |-> sendMessage(db, phoneNumber, FixedText, "reset_denied", t, ok),
                 handled |-> TRUE,
                 result |-> ReplyResult(phoneNumber, message, TRUE, "reset_denied",
                                        TRUE, "reset_denied", ok)]
         ELSE IF fail = "update"
           THEN [db |-> db, handled |-> TRUE,
                 result |-> ReplyError(phoneNumber, message, FALSE, NULL)]
         ELSE [db |-> sendMessage(resetUser(db, phoneNumber), phoneNumber, FixedText,
                                  "reset_confirm", t, ok),
               handled |-> TRUE,
               result |-> ReplyResult(phoneNumber, message, TRUE, "reset",
                                      TRUE, "reset_confirm", ok)]
  ELSE NotHandled(db)

\* `crisis_${keyword.toLowerCase()}` of sendFallbackCrisisResponse
FallbackCrisisId(responseMessageId) ==
  CASE responseMessageId = "help_response" -> "crisis_help"
    [] responseMessageId = "anxiety_response" -> "crisis_anxiety"
    [] responseMessageId = "stress_response" -> "crisis_stress"
    [] responseMessageId = "panic_response" -> "crisis_panic"
    [] responseMessageId = "crisis_response" -> "crisis_crisis"
    [] responseMessageId = "positive_response" -> "crisis_positive"
    [] responseMessageId = "breathe_response" -> "crisis_breathe"
    [] responseMessageId = "calm_response" -> "crisis_calm"

handleCrisisKeywords(db, phoneNumber, message, t, ok) ==
  IF message \in DOMAIN crisisKeywords
    THEN LET responseMessageId == crisisKeywords[message]
         IN IF getMessage(db, responseMessageId) # NULL
              THEN [db |-> sendMessage(db, phoneNumber,
                              personalizeMessage(db.messages[responseMessageId].message,
                                                 FirstName(db, phoneNumber)),
                              responseMessageId, t, ok),
                    handled |-> TRUE,
                    result |-> ReplyResult(phoneNumber, message, TRUE, "crisis_support",
                                           TRUE, responseMessageId, ok)]
            ELSE [db |-> sendMessage(db, phoneNumber, FixedText,
                                     FallbackCrisisId(responseMessageId), t, ok),
                  handled |-> TRUE,
                  result |-> ReplyResult(phoneNumber, message, TRUE, "crisis_support",
                                         TRUE, FallbackCrisisId(responseMessageId), ok)]
  ELSE NotHandled(db)

\* setHours(getHours() + 48)
ResponseWindowTwoDays == 48 * MinPerHour

\* responseWindow.setHours(responseWindow.getHours() + 24)
ResponseWindow == 24 * MinPerHour

handleInteractiveResponse(db, phoneNumber, response, t, ok, fail) ==
  IF ~HasUser(db, phoneNumber) \/ db.users[phoneNumber].awaiting_response = NULL
    THEN NotHandled(db)
  ELSE
    LET user == db.users[phoneNumber]
        original == getMessage(db, user.awaiting_response)
        validOptions == IF original = NULL THEN <<>>
                        ELSE extractResponseOptions(db.messages[original].message)
        cleared == IF fail = "update"
                     THEN [db |-> db, handled |-> TRUE,
                           result |-> ReplyError(phoneNumber, response, FALSE, NULL)]
                   ELSE NotHandled(clearAwaitingResponse(db, phoneNumber))
        followUpId == user.awaiting_response \o LowerChar(response[1])
    IN IF t > user.awaiting_response_since + ResponseWindow THEN cleared
       ELSE IF original = NULL THEN cleared
       ELSE IF Len(validOptions) = 0 THEN cleared
       ELSE IF ~IsValidOption(validOptions, response)
         THEN [db |-> sendMessage(db, phoneNumber, FixedText, "invalid_response", t, ok),
               handled |-> TRUE,
               result |-> ReplyResult(phoneNumber, response, TRUE, "invalid_response",
                                      TRUE, "invalid_response", ok)]
       ELSE
         LET sentId == IF getMessage(db, followUpId) # NULL THEN followUpId
                       ELSE "generic_followup"
             afterSend ==
               IF getMessage(db, followUpId) # NULL
                 THEN sendMessage(db, phoneNumber,
                        personalizeMessage(db.messages[followUpId].message, user.first_name),
                        followUpId, t, ok)
               ELSE sendMessage(db, phoneNumber, FixedText, "generic_followup", t, ok)
         IN IF fail = "update"
              THEN [db |-> afterSend, handled |-> TRUE,
                    result |-> ReplyError(phoneNumber, response, TRUE, sentId)]
            ELSE [db |-> clearAwaitingResponse(
                           recordInteractiveResponse(afterSend, phoneNumber,
                                                     user.awaiting_response),
                           phoneNumber),
                  handled |-> TRUE,
                  result |-> ReplyResult(phoneNumber, response, TRUE,
                                         "interactive_response", TRUE, sentId, ok)]

\* handleUnrecognizedMessage answering handled: sendResult.success
handleUnrecognizedMessageIfSent(db, phoneNumber, originalMessage, t, ok) ==
  [db |-> sendMessage(db, phoneNumber, FixedText, "unrecognized_response", t, ok),
   handled |-> TRUE,
   result |-> ReplyResult(phoneNumber, CleanMessage(originalMessage), ok, "unrecognized",
                          TRUE, "unrecognized_response", ok)]

handleUnrecognizedMessage(db, phoneNumber, originalMessage, t, ok) ==
  [db |-> sendMessage(db, phoneNumber, FixedText, "unrecognized_response", t, ok),
   handled |-> TRUE,
   result |-> ReplyResult(phoneNumber, CleanMessage(originalMessage), TRUE, "unrecognized",
                          TRUE, "unrecognized_response", ok)]

\* processIncomingMessage with the interactive handler tried first
processIncomingMessageInteractiveFirst(db, phoneNumber, messageBody, t, ok, fail) ==
  LET normalizedPhone == normalizePhoneNumber(phoneNumber)
      cleanMessage == CleanMessage(messageBody)
      interactiveResult ==
        handleInteractiveResponse(db, normalizedPhone, cleanMessage, t, ok, fail)
      commandResult ==
        handleSystemCommands(interactiveResult.db, normalizedPhone, cleanMessage, t, ok, fail)
      crisisResult ==
        handleCrisisKeywords(interactiveResult.db, normalizedPhone, cleanMessage, t, ok)
  IN IF fail = "getUser"
       THEN [db |-> db, handled |-> TRUE,
             result |-> ReplyError(normalizedPhone, cleanMessage, FALSE, NULL)]
     ELSE IF interactiveResult.handled THEN interactiveResult
     ELSE IF commandResult.handled THEN commandResult
     ELSE IF crisisResult.handled THEN crisisResult
     ELSE handleUnrecognizedMessage(interactiveResult.db, normalizedPhone, messageBody,
                                    t, ok)

processIncomingMessage(db, phoneNumber, messageBody, t, ok, fail) ==
  LET normalizedPhone == normalizePhoneNumber(phoneNumber)
      cleanMessage == CleanMessage(messageBody)
      commandResult == handleSystemCommands(db, normalizedPhone, cleanMessage, t, ok, fail)
      crisisResult == handleCrisisKeywords(db, normalizedPhone, cleanMessage, t, ok)
      interactiveResult ==
        handleInteractiveResponse(db, normalizedPhone, cleanMessage, t, ok, fail)
  IN IF fail = "getUser"
       THEN [db |-> db, handled |-> TRUE,
             result |-> ReplyError(normalizedPhone, cleanMessage, FALSE, NULL)]
     ELSE IF commandResult.handled THEN commandResult
     ELSE IF crisisResult.handled THEN crisisResult
     ELSE IF interactiveResult.handled THEN interactiveResult
     ELSE handleUnrecognizedMessage(interactiveResult.db, normalizedPhone, messageBody,
                                    t, ok)


(***************************************************************************)
(* Initial states                                                          *)
(***************************************************************************)
Phone1 == <<"+", "1", "3", "1", "2", "5", "5", "5", "0", "0", "0", "1">>
Phone2 == <<"+", "1", "2", "1", "3", "5", "5", "5", "0", "0", "0", "2">>
Phone1Local == <<"(", "3", "1", "2", ")", " ", "5", "5", "5", "-", "0", "0", "0", "1">>
UnknownPhone == <<"+", "1", "9", "9", "9", "5", "5", "5", "0", "0", "0", "0">>
\* a sender outside the US: 12 digits that begin with 4
ForeignPhone == <<"+", "4", "4", "2", "0", "7", "9", "4", "6", "0", "0", "0", "0">>

UserRow(phone, protocol, userType, position, total, status, trial, joined, lastSent, tz, firstName) ==
  [phone_number |-> phone, protocol |-> protocol, user_type |-> userType,
   current_sequence_position |-> position, total_messages_sent |-> total,
   subscription_status |-> status, trial_messages_sent |-> trial,
   date_joined |-> joined, last_message_sent |-> lastSent, timezone |-> tz,
   first_name |-> firstName, awaiting_response |-> NULL,
   awaiting_response_since |-> NoTime, stopped_at_position |-> 0]

\* the Saturday of the seventh week; the run starts at 14:59 UTC, which is 8:59
\* in Chicago and 6:59 in Los Angeles
StartDay == 6 * 7 + 6
At(day, hour, minute) == day * MinPerDay + hour * MinPerHour + minute
StartNow == At(StartDay, 14, 59)

\* Phone1, Chicago: a trial user about to get trial message 7, or a subscriber
\* at position 30
Phone1Rows ==
  {UserRow(Phone1, "Elevate", "trial", 1, 6, "trial", 6,
           At(StartDay - 6, 14, 0), At(StartDay - 2, 18, 0), "America/Chicago", "Ann"),
   UserRow(Phone1, "Elevate", "subscriber", 30, 29, "active", 0,
           At(StartDay - 38, 12, 0), At(StartDay - 2, 18, 0), "America/Chicago", "Ann")}

\* Phone2, Los Angeles: a trial user past the trial whose day 25 begins on the
\* Saturday at 16:00 UTC, or a subscriber in algorithm mode
Phone2Rows ==
  {UserRow(Phone2, "MindBoost", "trial", 1, 7, "trial", 7,
           At(StartDay - 25, 16, 0), At(StartDay - 18, 18, 0), "America/Los_Angeles", NULL),
   UserRow(Phone2, "Elevate", "subscriber", 31, 30, "active", 0,
           At(StartDay - 43, 12, 0), At(StartDay - 3, 18, 0), "America/Los_Angeles", NULL)}

NoVerdict == [user |-> NULL, at |-> NoTime, isDue |-> NotDue(NULL)]

\* everything but the clock and the users table, as a fresh run finds it
Quiet ==
  /\ daily_limits = <<>>
  /\ messages = InitialMessages
  /\ pending_messages = <<>>
  /\ schedBatch = <<>>
  /\ injQueue = <<>>
  /\ injQueueB = <<>>
  /\ injResults = NoResults
  /\ last = NoStep
  /\ verdict = NoVerdict
  /\ dbFailures = 0
  /\ inbound = 0
  /\ scheduler = [isRunning |-> FALSE, cronJob |-> FALSE, timers |-> 0, firedAt |-> NoTime,
                  second |-> <<>>]

Init ==
  /\ now = StartNow
  /\ \E r1 \in Phone1Rows, r2 \in Phone2Rows :
       users = [p \in {Phone1, Phone2} |-> IF p = Phone1 THEN r1 ELSE r2]
  /\ message_history = <<>>
  /\ Quiet

(***************************************************************************)
(* Actions                                                                 *)
(***************************************************************************)
Idle ==
  schedBatch = <<>> /\ injQueue = <<>> /\ injQueueB = <<>> /\ scheduler.second = <<>>

Install(db) ==
  /\ users' = db.users
  /\ daily_limits' = db.daily_limits
  /\ message_history' = db.message_history
  /\ messages' = db.messages
  /\ pending_messages' = db.pending_messages

\* the instants of a day at which the clock is read, minutes after 00:00 UTC:
\* 0:00 (18:00 in Chicago, 16:00 in Los Angeles), 14:59 and 15:00 (8:59 and 9:00
\* in Chicago, before 9:00 in Los Angeles), 23:59 (17:59 in Chicago, 15:59 in
\* Los Angeles)
ClockMarks == {0, 899, 900, 1439}

NextMark(t) ==
  CHOOSE m \in {d * MinPerDay + k : d \in (t \div MinPerDay)..(t \div MinPerDay + 1),
                                    k \in ClockMarks} :
    /\ m > t
    /\ \A o \in {d * MinPerDay + k : d \in (t \div MinPerDay)..(t \div MinPerDay + 1),
                                     k \in ClockMarks} : o > t => m <= o

RECURSIVE NthMark(_, _)
NthMark(t, n) == IF n = 0 THEN t ELSE NthMark(NextMark(t), n - 1)

\* time passes while no handler runs
Advance ==
  /\ Idle
  /\ NextMark(now) <= NthMark(StartNow, MaxAdvances)
  /\ now' = NextMark(now)
  /\ last' = NoStep
  /\ injResults' = NoResults
  /\ UNCHANGED <<users, daily_limits, message_history, messages, pending_messages,
                 schedBatch, injQueue, injQueueB, verdict, dbFailures, inbound, scheduler>>

\* a database call can be rejected while the budget of failures lasts
Failing(fail) == IF fail = "none" THEN 0 ELSE 1

MayFail(fail) == dbFailures + Failing(fail) <= MaxDbFailures

\* processMessageQueue, up to the loop: the batch is loaded
TickBegin ==
  /\ Idle
  /\ schedBatch' = getEligibleUsers(DB)
  /\ last' = NoStep
  /\ injResults' = NoResults
  /\ UNCHANGED <<now, users, daily_limits, message_history, messages,
                 pending_messages, injQueue, injQueueB, verdict, dbFailures, inbound, scheduler>>

\* one turn of the loop of processMessageQueue
TickStep ==
  /\ schedBatch # <<>>
  /\ Len(message_history) < MaxHistory
  /\ LET user == Head(schedBatch)
     IN \E ok \in BOOLEAN, fail \in SchedFailures :
          \E pick \in NextMessageChoices(DB, user, isUserDueForMessage(user, now)) :
            LET step == checkUserForMessage(DB, user, now, ok, fail, pick)
            IN /\ MayFail(fail)
               /\ fail # "none" => step.result.threw
               /\ Install(step.db)
               /\ last' = step.result
               /\ schedBatch' = RestOfBatch(schedBatch, step.result)
               /\ dbFailures' = dbFailures + Failing(fail)
  /\ UNCHANGED <<now, injQueue, injQueueB, injResults, verdict, inbound, scheduler>>

InjectIds == {"inj1"}
InjectBodies == {PlainBody}
Priorities == {1}
ProtocolFilters == {"ALL", "MindBoost"}

\* injectMessage, up to the loop of processInjectionQueue: the template is
\* stored, the cohort queued and the pending rows loaded
InjectBegin ==
  /\ Idle
  /\ \E messageId \in InjectIds, message \in InjectBodies, priority \in Priorities,
        protocol \in ProtocolFilters :
       LET added == addMessageToDatabase(DB, messageId, message, protocol)
           cohort == getActiveUsers(added, protocol)
       IN /\ Len(pending_messages) < MaxInjections
          /\ \E rejected \in SUBSET {cohort[i].phone_number : i \in 1..Len(cohort)} :
               LET queued == queueMessageForUsers(added, cohort, messageId, priority,
                                                  now, rejected)
               IN /\ dbFailures + Cardinality(rejected) <= MaxDbFailures
                  /\ Install(queued)
                  /\ injQueue' = getPendingInjections(queued)
                  /\ injResults' =
                       InjectionResults(protocol, Len(cohort),
                                        Len(cohort) - Cardinality(rejected),
                                        {injQueue'[i].id : i \in 1..Len(injQueue')})
                  /\ dbFailures' = dbFailures + Cardinality(rejected)
  /\ last' = NoStep
  /\ UNCHANGED <<now, schedBatch, injQueueB, verdict, inbound, scheduler>>

\* one turn of the loop of processInjectionQueue; the rejection of the status
\* write of the catch block belongs to the failure that led into the block
InjectStep ==
  /\ injQueue # <<>>
  /\ Len(message_history) < MaxHistory
  /\ \E ok \in BOOLEAN, fail \in InjFailures, catchFails \in BOOLEAN :
       LET step == processInjectionRow(DB, Head(injQueue), now, ok, fail, catchFails)
       IN /\ MayFail(fail)
          /\ fail # "none" => step.result.threw
          /\ catchFails => step.result.threw
          /\ Install(step.db)
          /\ last' = step.result
          /\ injQueue' = IF step.aborted THEN <<>> ELSE Tail(injQueue)
          /\ injResults' = countInjection(injResults, step, fail, Tail(injQueue) = <<>>)
          /\ dbFailures' = dbFailures + Failing(fail)
  /\ UNCHANGED <<now, schedBatch, injQueueB, verdict, inbound, scheduler>>

Next == Advance \/ TickBegin \/ TickStep \/ InjectBegin \/ InjectStep

Spec == Init /\ [][Next]_vars

(***************************************************************************)
(* The eligibility evaluator and the scheduler on one recipient, at any    *)
(* day offset since the join                                               *)
(***************************************************************************)
\* the join of the evaluated recipient: a Sunday, 15:00 UTC, 9:00 in Chicago
EvalJoin == At(0, 15, 0)

\* minutes past the whole days since the join: none, or all but one
EvalMinutes == {0, MinPerDay - 1}

\* time since the last send
EvalGaps == {0, MinPerDay - 1, MinPerDay, 2 * MinPerDay - 1, 2 * MinPerDay}

\* day offsets at which the recipients under way are evaluated
EvalSettledDays == {40, 41}

EvalRow(userType, position, total, trial, lastSent) ==
  UserRow(Phone1, "Elevate", userType, position, total,
          IF userType = "trial" THEN "trial" ELSE "active", trial, EvalJoin, lastSent,
          "America/Chicago", "Ann")

\* the rows a recipient can hold d days after the join, at instant t
EvalRows(d, t) ==
  {EvalRow("trial", 1, 7, 7, EvalJoin + 7 * MinPerDay) : x \in {y \in {d} : y >= 7}}
  \cup {EvalRow(userType, 1, 0, 0, NoTime) :
          userType \in {x \in {"trial", "subscriber"} : d <= 2}}
  \cup {EvalRow("trial", 1, 6, 6, t - gap) : gap \in {g \in EvalGaps : d \in EvalSettledDays}}
  \cup {EvalRow("subscriber", position, position - 1, 0, t - gap) :
          position \in {29, 30, 31, 32}, gap \in {g \in EvalGaps : d \in EvalSettledDays}}

InitEval ==
  /\ \E d \in 0..MaxDay, m \in EvalMinutes :
       /\ now = EvalJoin + d * MinPerDay + m
       /\ \E row \in EvalRows(d, now) : users = [p \in {Phone1} |-> row]
  /\ message_history = <<>>
  /\ Quiet

\* isUserDueForMessage called on a row of the users table
Evaluate ==
  /\ Idle
  /\ \E p \in DOMAIN users :
       verdict' = [user |-> users[p], at |-> now,
                   isDue |-> isUserDueForMessage(users[p], now)]
  /\ last' = NoStep
  /\ UNCHANGED <<now, users, daily_limits, message_history, messages, pending_messages,
                 schedBatch, injQueue, injQueueB, injResults, dbFailures, inbound, scheduler>>

NextEval == Evaluate \/ TickBegin \/ TickStep

SpecEval == InitEval /\ [][NextEval]_vars

(***************************************************************************)
(* The SMS webhook                                                         *)
(***************************************************************************)
\* 23:59 UTC of the Saturday: 17:59 in Chicago
ReplyNow == At(StartDay, 23, 59)

Awaiting(row, messageId, since) ==
  [row EXCEPT !.awaiting_response = messageId, !.awaiting_response_since = since,
              !.last_message_sent = since]

\* the row after STOP
Stopped(row) ==
  [row EXCEPT !.subscription_status = "stopped",
              !.stopped_at_position = row.current_sequence_position]

\* the row after a synchronisation with a WordPress subscription whose status
\* is expired: syncUserToSMS keeps the counters and replaces the rest
Expired(row) ==
  [row EXCEPT !.user_type = "trial", !.subscription_status = "expired",
              !.awaiting_response = NULL, !.awaiting_response_since = NoTime,
              !.stopped_at_position = 0]

\* Phone1, a subscriber who joined as a trial user and got interactive message
\* 30: Idle again, or AwaitingResponse for an hour, for 24 hours to the minute,
\* or for a minute more than 24 hours; or Idle after a STOP; or expired
ReplyRows ==
  LET row == UserRow(Phone1, "Elevate", "subscriber", 31, 30, "active", 3,
                     At(StartDay - 38, 12, 0), ReplyNow - 3 * MinPerDay,
                     "America/Chicago", "Ann")
  IN {row, Awaiting(row, "30", ReplyNow - MinPerHour),
      Awaiting(row, "30", ReplyNow - MinPerDay),
      Awaiting(row, "30", ReplyNow - MinPerDay - 1),
      Stopped(row), Expired(row)}

\* Phone2: the rows of Phone2Rows, or the trial user after a STOP
ReplyPeerRows ==
  Phone2Rows \cup {Stopped(r) : r \in {q \in Phone2Rows : q.user_type = "trial"}}

InitReply ==
  /\ now = ReplyNow
  /\ \E r1 \in ReplyRows, r2 \in ReplyPeerRows :
       users = [p \in {Phone1, Phone2} |-> IF p = Phone1 THEN r1 ELSE r2]
  /\ message_history = <<HistoryRow(Phone1, "30")>>
  /\ Quiet

InboundPhones == {Phone1, Phone2, Phone1Local, UnknownPhone, ForeignPhone}

InboundTexts ==
  {<<"S", "T", "O", "P">>, <<" ", "s", "t", "o", "p">>, <<"S", "T", "A", "R", "T">>,
   <<"R", "E", "S", "E", "T">>, <<"H", "E", "L", "P">>, <<"c", "a", "l", "m">>,
   <<"A", "N", "X", "I", "E", "T", "Y">>, <<"A">>, <<"b">>, <<"E">>, <<"h", "i">>, <<>>}

\* the SMS webhook: processIncomingMessage
HandleReply ==
  /\ Idle
  /\ inbound < MaxReplies
  /\ Len(message_history) < MaxHistory
  /\ \E phoneNumber \in InboundPhones, messageBody \in InboundTexts,
        ok \in BOOLEAN, fail \in ReplyFailures :
       LET reply == processIncomingMessage(DB, phoneNumber, messageBody, now, ok, fail)
       IN /\ MayFail(fail)
          /\ fail # "none" => reply.result.threw
          /\ Install(reply.db)
          /\ last' = reply.result
          /\ dbFailures' = dbFailures + Failing(fail)
  /\ inbound' = inbound + 1
  /\ UNCHANGED <<now, schedBatch, injQueue, injQueueB, injResults, verdict, scheduler>>

NextReply == HandleReply

SpecReply == InitReply /\ [][NextReply]_vars

(***************************************************************************)
(* Two inject calls whose drains overlap: the admin endpoint awaits        *)
(* injectMessage, so a second request is served while the first drain      *)
(* waits for the transport or for its delay between two rows               *)
(***************************************************************************)
\* the call reads no field of a recipient in which the rows of Phone1 differ
InitOverlap ==
  /\ now = ReplyNow
  /\ \E r1 \in {r \in Phone1Rows : r.user_type = "subscriber"}, r2 \in Phone2Rows :
       users = [p \in {Phone1, Phone2} |-> IF p = Phone1 THEN r1 ELSE r2]
  /\ message_history = <<>>
  /\ Quiet

\* a minute passes while the first call waits for the transport on its first
\* row: 0:00 UTC of the Sunday, 18:00 of the Saturday in Chicago and 16:00 in
\* Los Angeles
Elapse ==
  /\ injQueue # <<>>
  /\ Len(injQueue) = Cardinality(injResults.pendingMessages)
  /\ injQueueB = <<>>
  /\ now = ReplyNow
  /\ now' = now + 1
  /\ last' = NoStep
  /\ UNCHANGED <<users, daily_limits, message_history, messages, pending_messages,
                 schedBatch, injQueue, injQueueB, injResults, verdict, dbFailures, inbound, scheduler>>

\* the priority of the second call: the default, or one that goes first
UrgentPriorities == {0, 1}

\* injectMessage called while the drain of an earlier call is in flight, up to
\* the loop of processInjectionQueue
InjectBeginB ==
  /\ schedBatch = <<>>
  /\ injQueue # <<>>
  /\ injQueueB = <<>>
  /\ \E messageId \in InjectIds, message \in InjectBodies, priority \in UrgentPriorities,
        protocol \in ProtocolFilters :
       LET added == addMessageToDatabase(DB, messageId, message, protocol)
           cohort == getActiveUsers(added, protocol)
       IN \E rejected \in SUBSET {cohort[i].phone_number : i \in 1..Len(cohort)} :
            LET queued == queueMessageForUsers(added, cohort, messageId, priority,
                                               now, rejected)
            IN /\ Len(queued.pending_messages) <= MaxPending
               /\ dbFailures + Cardinality(rejected) <= MaxDbFailures
               /\ Install(queued)
               /\ injQueueB' = getPendingInjections(queued)
               /\ dbFailures' = dbFailures + Cardinality(rejected)
  /\ last' = NoStep
  /\ UNCHANGED <<now, schedBatch, injQueue, injResults, verdict, inbound, scheduler>>

\* one turn of the loop of processInjectionQueue of that call
InjectStepB ==
  /\ injQueueB # <<>>
  /\ Len(message_history) < MaxHistory
  /\ \E ok \in BOOLEAN, fail \in InjFailures, catchFails \in BOOLEAN :
       LET step == processInjectionRow(DB, Head(injQueueB), now, ok, fail, catchFails)
       IN /\ MayFail(fail)
          /\ fail # "none" => step.result.threw
          /\ catchFails => step.result.threw
          /\ Install(step.db)
          /\ last' = step.result
          /\ injQueueB' = IF step.aborted THEN <<>> ELSE Tail(injQueueB)
          /\ dbFailures' = dbFailures + Failing(fail)
  /\ UNCHANGED <<now, schedBatch, injQueue, injResults, verdict, inbound, scheduler>>

NextOverlap == InjectBegin \/ InjectStep \/ Elapse \/ InjectBeginB \/ InjectStepB

SpecOverlap == InitOverlap /\ [][NextOverlap]_vars

(***************************************************************************)
(* A tick that begins while a drain is in flight: the steps of the two      *)
(* interleave at their awaits                                               *)
(***************************************************************************)
\* processMessageQueue, up to the loop, while the drain waits
TickBeginDuringDrain ==
  /\ injQueue # <<>>
  /\ injQueueB = <<>>
  /\ schedBatch = <<>>
  /\ schedBatch' = getEligibleUsers(DB)
  /\ last' = NoStep
  /\ UNCHANGED <<now, users, daily_limits, message_history, messages, pending_messages,
                 injQueue, injQueueB, injResults, verdict, dbFailures, inbound, scheduler>>

NextRace == InjectBegin \/ InjectStep \/ TickBeginDuringDrain \/ TickStep

SpecRace == InitOverlap /\ [][NextRace]_vars

(***************************************************************************)
(* The recurring trigger: MessageScheduler.start and stop.  The cron        *)
(* expression is evaluated in America/Chicago.  Ticks are taken one at a    *)
(* time here.                                                               *)
(***************************************************************************)
\* the instants the clock passes through: 7:30, 8:00 and 9:00 of the Saturday
\* in Chicago, then 19:30 and 20:00 (17:30 and 18:00 in Los Angeles)
CronMarks ==
  <<At(StartDay, 13, 30), At(StartDay, 14, 0), At(StartDay, 15, 0),
    At(StartDay + 1, 1, 30), At(StartDay + 1, 2, 0)>>

InitCron ==
  /\ now = CronMarks[1]
  /\ \E r1 \in Phone1Rows, r2 \in Phone2Rows :
       users = [p \in {Phone1, Phone2} |-> IF p = Phone1 THEN r1 ELSE r2]
  /\ message_history = <<>>
  /\ Quiet

CronAdvance ==
  /\ Idle
  /\ \E i \in 1..(Len(CronMarks) - 1) : now = CronMarks[i] /\ now' = CronMarks[i + 1]
  /\ last' = NoStep
  /\ UNCHANGED <<users, daily_limits, message_history, messages, pending_messages,
                 schedBatch, injQueue, injQueueB, injResults, verdict, dbFailures, inbound,
                 scheduler>>

\* start(): schedules the cron job and a first check 10 seconds later
Start ==
  /\ ~scheduler.isRunning
  /\ scheduler.timers < MaxTimers
  /\ scheduler' = [scheduler EXCEPT !.isRunning = TRUE, !.cronJob = TRUE,
                                    !.timers = @ + 1]
  /\ last' = NoStep
  /\ UNCHANGED <<now, users, daily_limits, message_history, messages, pending_messages,
                 schedBatch, injQueue, injQueueB, injResults, verdict, dbFailures, inbound>>

\* stop(): stops the cron job
Stop ==
  /\ scheduler' = [scheduler EXCEPT !.isRunning = FALSE, !.cronJob = FALSE]
  /\ last' = NoStep
  /\ UNCHANGED <<now, users, daily_limits, message_history, messages, pending_messages,
                 schedBatch, injQueue, injQueueB, injResults, verdict, dbFailures, inbound>>

\* the callback of cron.schedule('*/30 8-19 * * *'): processMessageQueue, up to
\* the loop
CronTick ==
  /\ scheduler.cronJob
  /\ scheduler.firedAt # now
  /\ LocalHour("America/Chicago", now) \in 8..19
  /\ LocalMinute("America/Chicago", now) % 30 = 0
  /\ Idle
  /\ schedBatch' = getEligibleUsers(DB)
  /\ scheduler' = [scheduler EXCEPT !.firedAt = now]
  /\ last' = NoStep
  /\ UNCHANGED <<now, users, daily_limits, message_history, messages, pending_messages,
                 injQueue, injQueueB, injResults, verdict, dbFailures, inbound>>

\* the callback of setTimeout(..., 10000): processMessageQueue, up to the loop
TimerTick ==
  /\ scheduler.timers > 0
  /\ Idle
  /\ schedBatch' = getEligibleUsers(DB)
  /\ scheduler' = [scheduler EXCEPT !.timers = @ - 1]
  /\ last' = NoStep
  /\ UNCHANGED <<now, users, daily_limits, message_history, messages, pending_messages,
                 injQueue, injQueueB, injResults, verdict, dbFailures, inbound>>

NextCron == CronAdvance \/ Start \/ Stop \/ CronTick \/ TimerTick \/ TickStep

SpecCron == InitCron /\ [][NextCron]_vars

\* the callback of a second setTimeout of start(), stop(), start() fires while
\* the tick of the first is in flight: processMessageQueue has no guard
\* against re-entry and loads its own eligibleUsers
TimerTickOverlap ==
  /\ scheduler.timers > 0
  /\ schedBatch # <<>>
  /\ scheduler.second = <<>>
  /\ scheduler' = [scheduler EXCEPT !.timers = @ - 1, !.second = getEligibleUsers(DB)]
  /\ last' = NoStep
  /\ UNCHANGED <<now, users, daily_limits, message_history, messages, pending_messages,
                 schedBatch, injQueue, injQueueB, injResults, verdict, dbFailures, inbound>>

\* one turn of the loop of that second tick
TickStepSecond ==
  /\ scheduler.second # <<>>
  /\ Len(message_history) < MaxHistory
  /\ LET user == Head(scheduler.second)
     IN \E ok \in BOOLEAN, fail \in SchedFailures :
          \E pick \in NextMessageChoices(DB, user, isUserDueForMessage(user, now)) :
            LET step == checkUserForMessage(DB, user, now, ok, fail, pick)
            IN /\ MayFail(fail)
               /\ fail # "none" => step.result.threw
               /\ Install(step.db)
               /\ last' = step.result
               /\ scheduler' = [scheduler EXCEPT
                                  !.second = RestOfBatch(@, step.result)]
               /\ dbFailures' = dbFailures + Failing(fail)
  /\ UNCHANGED <<now, schedBatch, injQueue, injQueueB, injResults, verdict, inbound>>

\* start(), stop() and the first checks, at 9:00 of the Saturday in Chicago
InitReentry ==
  /\ now = At(StartDay, 15, 0)
  /\ \E r1 \in Phone1Rows, r2 \in Phone2Rows :
       users = [p \in {Phone1, Phone2} |-> IF p = Phone1 THEN r1 ELSE r2]
  /\ message_history = <<>>
  /\ Quiet

NextReentry ==
  \/ Start
  \/ Stop
  \/ TimerTick
  \/ TickStep
  \/ TimerTickOverlap
  \/ TickStepSecond

SpecReentry == InitReentry /\ [][NextReentry]_vars

(***************************************************************************)
(* WordPressSync (src/wordpressSync.js): the periodic synchronisation of    *)
(* the WordPress subscribers into the users table                           *)
(***************************************************************************)
\* normalizePhoneNumber that adds the country code only when the digits do
\* not start with 1
syncNormalizeUnlessLeading1(phoneNumber) ==
  LET stripped == OnlyDigits(phoneNumber)
      normalized == IF Len(stripped) = 10 /\ Head(stripped) # "1"
                      THEN <<"1">> \o stripped ELSE stripped
  IN IF phoneNumber = <<>> THEN NULL
     ELSE IF Len(normalized) # 11 \/ Head(normalized) # "1" THEN NULL
     ELSE <<"+">> \o normalized

\* WordPressSync.normalizePhoneNumber: NULL stands for the null it returns
syncNormalizePhoneNumber(phoneNumber) ==
  LET stripped == OnlyDigits(phoneNumber)
      normalized == IF Len(stripped) = 10 THEN <<"1">> \o stripped ELSE stripped
  IN IF phoneNumber = <<>> THEN NULL
     ELSE IF Len(normalized) # 11 \/ Head(normalized) # "1" THEN NULL
     ELSE <<"+">> \o normalized

\* validateTimezone, with the zones of the model as the valid ones
validateTimezone(timezone) ==
  IF timezone \in Timezones THEN timezone
  ELSE IF timezone = "PST" THEN "America/Los_Angeles"
  ELSE "America/Chicago"

\* parseSubscriptionData: the status of the subscription, 'inactive' without one
parseSubscriptionData(subscription_data) ==
  IF subscription_data = NULL THEN "inactive" ELSE subscription_data

\* syncUserToSMS: INSERT OR REPLACE INTO users. The columns it names are
\* written, date_joined and the counters are kept by COALESCE when the row
\* exists, and every column it does not name falls back to its default
syncUserToSMS(db, userData, t) ==
  LET phone == userData.phoneNumber
      exists == phone \in DOMAIN db.users
      old == db.users[phone]
      row == [phone_number |-> phone,
              protocol |-> userData.protocol,
              user_type |-> userData.userType,
              first_name |-> userData.firstName,
              subscription_status |-> userData.subscriptionStatus,
              timezone |-> validateTimezone(userData.timezone),
              date_joined |-> IF exists THEN old.date_joined ELSE t,
              current_sequence_position |->
                 IF exists THEN old.current_sequence_position ELSE 1,
              total_messages_sent |-> IF exists THEN old.total_messages_sent ELSE 0,
              trial_messages_sent |-> IF exists THEN old.trial_messages_sent ELSE 0,
              last_message_sent |-> IF exists THEN old.last_message_sent ELSE NoTime,
              awaiting_response |-> NULL,
              awaiting_response_since |-> NoTime,
              stopped_at_position |-> 0]
  IN [db EXCEPT !.users = [p \in DOMAIN @ \cup {phone} |->
                             IF p = phone THEN row ELSE @[p]]]

SyncResult(raw, phone, action, threw) ==
  [StepResult("sync", phone, FALSE, NULL, FALSE, NULL, threw)
     EXCEPT !.action = action, !.text = raw]

\* one turn of the loop of syncSubscribers; fail is the rejection of the
\* INSERT OR REPLACE, which the turn catches
syncSubscriber(db, subscriber, t, fail) ==
  LET subscriptionStatus == parseSubscriptionData(subscriber.subscription_data)
      userType == IF subscriptionStatus = "active" THEN "subscriber" ELSE "trial"
      phoneNumber == syncNormalizePhoneNumber(subscriber.phone_number)
      protocol == IF subscriber.mindboost_enabled = "1" THEN "MindBoost" ELSE "Elevate"
      userData == [phoneNumber |-> phoneNumber, firstName |-> subscriber.first_name,
                   userType |-> userType, subscriptionStatus |-> subscriptionStatus,
                   timezone |-> IF subscriber.timezone = NULL THEN "America/Chicago"
                                ELSE subscriber.timezone,
                   protocol |-> protocol]
  IN IF subscriptionStatus = "inactive"
       THEN [db |-> db,
             result |-> SyncResult(subscriber.phone_number, <<>>, "skipped", FALSE)]
     ELSE IF phoneNumber = NULL
       THEN [db |-> db,
             result |-> SyncResult(subscriber.phone_number, <<>>, "invalid", FALSE)]
     ELSE IF fail # "none"
       THEN [db |-> db,
             result |-> SyncResult(subscriber.phone_number, phoneNumber, "skipped", TRUE)]
     ELSE [db |-> syncUserToSMS(db, userData, t),
           result |-> SyncResult(subscriber.phone_number, phoneNumber, "synced", FALSE)]

\* phone numbers as WordPress holds them: formats of Phone1 and Phone2, ten
\* digits that begin with 1, and numbers that are no US number
PhoneInputs ==
  {Phone1, Phone1Local,
   <<"3", "1", "2", "-", "5", "5", "5", "-", "0", "0", "0", "1">>,
   <<"1", "3", "1", "2", "5", "5", "5", "0", "0", "0", "1">>,
   <<"2", "1", "3", ".", "5", "5", "5", ".", "0", "0", "0", "2">>,
   <<"1", "3", "1", "-", "2", "5", "5", "-", "5", "0", "0", "0">>,
   <<"1", "2", "3", "-", "4", "5", "-", "6", "7", "8">>,
   <<"2", "-", "3", "1", "2", "-", "5", "5", "5", "-", "0", "0", "0", "1">>,
   <<"+", "1", " ", "3", "1", "2", " ", "5", "5", "5", " ", "0", "0", "0", "1", "2">>,
   <<"a", "b", "c">>,
   <<>>}

SubscriptionData == {"active", "expired", NULL}

\* getWordPressSubscribers: the rows whose phone is not empty and matches
\* REGEXP '^[0-9+()-. ]+$', in which )-. is the range of ) * + , - .
Subscribers ==
  [phone_number : {p \in PhoneInputs :
                     /\ p # <<>>
                     /\ \A i \in 1..Len(p) :
                          p[i] \in Digits \cup {"+", "(", ")", "*", ",", "-", ".", " "}},
   subscription_data : SubscriptionData,
   first_name : {"Ann"}, timezone : {"America/Los_Angeles", "PST", NULL},
   mindboost_enabled : {"0", "1"}]

\* the tracking database before a synchronisation: the rows of the webhook
InitSync ==
  /\ now = ReplyNow
  /\ \E r1 \in ReplyRows, r2 \in ReplyPeerRows :
       users = [p \in {Phone1, Phone2} |-> IF p = Phone1 THEN r1 ELSE r2]
  /\ message_history = <<HistoryRow(Phone1, "30")>>
  /\ Quiet

\* syncSubscribers over a result of one WordPress subscriber
SyncSubscribers ==
  /\ Idle
  /\ inbound < MaxSyncs
  /\ inbound' = inbound + 1
  /\ \E subscriber \in Subscribers, fail \in {"none", "syncUser"} :
       LET sync == syncSubscriber(DB, subscriber, now, fail)
       IN /\ MayFail(fail)
          /\ fail # "none" => sync.result.threw
          /\ Install(sync.db)
          /\ last' = sync.result
          /\ dbFailures' = dbFailures + Failing(fail)
  /\ UNCHANGED <<now, schedBatch, injQueue, injQueueB, injResults, verdict, scheduler>>

NextSync == SyncSubscribers

SpecSync == InitSync /\ [][NextSync]_vars

(***************************************************************************)
(* The retention purge of the injector: cleanupOldInjections                *)
(***************************************************************************)
RetentionDays == 30

\* cleanupOldInjections with created_timestamp <= ? for created_timestamp < ?
cleanupOldInjectionsInclusive(db, t, fail) ==
  LET cutoffDate == t - RetentionDays * MinPerDay
      Kept(row) == ~(/\ row.status \in {"sent", "skipped", "failed"}
                     /\ row.created_timestamp <= cutoffDate)
  IN IF fail # "none" THEN [db |-> db, threw |-> TRUE]
     ELSE [db |-> [db EXCEPT !.pending_messages = SelectSeq(@, Kept)],
           threw |-> FALSE]

\* DELETE FROM pending_messages WHERE is_manual_injection = 1 AND status IN
\* ('sent', 'skipped', 'failed') AND created_timestamp < cutoffDate; every row
\* of the table is written by queueMessageForUsers with is_manual_injection = 1
cleanupOldInjections(db, t, fail) ==
  LET cutoffDate == t - RetentionDays * MinPerDay
      Kept(row) == ~(/\ row.status \in {"sent", "skipped", "failed"}
                     /\ row.created_timestamp < cutoffDate)
  IN IF fail # "none" THEN [db |-> db, threw |-> TRUE]
     ELSE [db |-> [db EXCEPT !.pending_messages = SelectSeq(@, Kept)],
           threw |-> FALSE]

\* creation times of the rows the purge finds, before ReplyNow: 31 days, a
\* minute more than 30 days, 30 days to the minute, a minute less, and a day
CleanupAges ==
  {31 * MinPerDay, RetentionDays * MinPerDay + 1, RetentionDays * MinPerDay,
   RetentionDays * MinPerDay - 1, MinPerDay}

\* a row of pending_messages after its injection was queued and drained
DrainedRow(id, phoneNumber, age, status) ==
  [PendingRow(id, phoneNumber, "inj1", 1, ReplyNow - age) EXCEPT !.status = status]

InjectionStatuses == {"pending", "sent", "skipped", "failed"}

\* the tracking database with three rows left by earlier injections
InitCleanup ==
  /\ now = ReplyNow
  /\ \E r1 \in Phone1Rows, r2 \in Phone2Rows :
       users = [p \in {Phone1, Phone2} |-> IF p = Phone1 THEN r1 ELSE r2]
  /\ \E a1, a2, a3 \in CleanupAges, s1, s2, s3 \in InjectionStatuses :
       /\ a1 >= a2 /\ a2 >= a3
       /\ pending_messages = <<DrainedRow(1, Phone1, a1, s1), DrainedRow(2, Phone2, a2, s2),
                               DrainedRow(3, Phone1, a3, s3)>>
  /\ daily_limits = <<>>
  /\ message_history = <<>>
  /\ messages = addMessageToDatabase([messages |-> InitialMessages], "inj1", PlainBody,
                                     "ALL").messages
  /\ schedBatch = <<>>
  /\ injQueue = <<>>
  /\ injQueueB = <<>>
  /\ injResults = NoResults
  /\ last = NoStep
  /\ verdict = NoVerdict
  /\ dbFailures = 0
  /\ inbound = 0
  /\ scheduler = [isRunning |-> FALSE, cronJob |-> FALSE, timers |-> 0, firedAt |-> NoTime,
                  second |-> <<>>]

\* a call of cleanupOldInjections
Cleanup ==
  /\ Idle
  /\ \E fail \in {"none", "delete"} :
       LET purge == cleanupOldInjections(DB, now, fail)
       IN /\ MayFail(fail)
          /\ Install(purge.db)
          /\ last' = StepResult("cleanup", <<>>, FALSE, NULL, FALSE, NULL, purge.threw)
          /\ dbFailures' = dbFailures + Failing(fail)
  /\ UNCHANGED <<now, schedBatch, injQueue, injQueueB, injResults, verdict, inbound,
                 scheduler>>

NextCleanup == Cleanup

SpecCleanup == InitCleanup /\ [][NextCleanup]_vars

(***************************************************************************)
(* A tick suspended inside checkUserForMessage: between the await of        *)
(* checkDailyLimit and isUserDueForMessage and the awaits of the send and   *)
(* of updateUserProgress, the steps of a drain run                          *)
(***************************************************************************)
\* steps 1 to 5 of checkUserForMessage let the recipient through
passesChecks(db, user, t) ==
  /\ ~IsRestDay(LocalWeekday(user.timezone, t))
  /\ ~(LocalHour(user.timezone, t) < WindowOpenHour
       \/ LocalHour(user.timezone, t) >= WindowCloseHour)
  /\ checkDailyLimit(db, user.phone_number, t) < DailyCap
  /\ isUserDueForMessage(user, t).due

\* steps 6 to 8 of checkUserForMessage, with the isDue of step 5
sendAndUpdateProgress(db, user, isDue, t, ok, fail, pick) ==
  LET phone == user.phone_number
      skip(reason) ==
        [db |-> db, result |-> StepResult("tick", phone, FALSE, reason, FALSE, NULL, FALSE)]
      throw ==
        [db |-> db, result |-> StepResult("tick", phone, FALSE, "error", FALSE, NULL, TRUE)]
  IN IF fail = "getNextMessage" \/ getNextMessageThrows(isDue.messageType, isDue.position)
       THEN throw
     ELSE IF pick = NULL THEN skip("No message found for user position")
     ELSE LET text == personalizeMessage(db.messages[pick].message, user.first_name)
              afterSend == sendMessage(db, phone, text, pick, t, ok)
              progress == updateUserProgress(afterSend, user, isDue, t, fail)
          IN IF ~ok
               THEN [db |-> afterSend,
                     result |-> StepResult("tick", phone, FALSE, "Send failed", TRUE, pick, FALSE)]
             ELSE [db |-> progress.db,
                   result |-> StepResult("tick", phone, ~progress.threw,
                                         IF progress.threw THEN "error" ELSE NULL,
                                         TRUE, pick, progress.threw)]

\* a tick waits inside checkUserForMessage
Suspended == verdict.at # NoTime

\* the tick has read the Daily Counter and the due verdict of the first
\* recipient of its batch and waits for the catalog
TickStepSuspend ==
  /\ schedBatch # <<>>
  /\ injQueue # <<>>
  /\ ~Suspended
  /\ passesChecks(DB, Head(schedBatch), now)
  /\ verdict' = [user |-> Head(schedBatch), at |-> now,
                 isDue |-> isUserDueForMessage(Head(schedBatch), now)]
  /\ UNCHANGED <<now, users, daily_limits, message_history, messages, pending_messages,
                 schedBatch, injQueue, injQueueB, injResults, last, dbFailures, inbound,
                 scheduler>>

\* the suspended tick goes on with that recipient
TickStepResume ==
  /\ schedBatch # <<>>
  /\ Suspended
  /\ Len(message_history) < MaxHistory
  /\ \E ok \in BOOLEAN, fail \in SchedFailures \ {"checkDailyLimit"} :
       \E pick \in NextMessageChoices(DB, verdict.user, verdict.isDue) :
         LET step == sendAndUpdateProgress(DB, verdict.user, verdict.isDue, now, ok, fail,
                                           pick)
         IN /\ MayFail(fail)
            /\ fail # "none" => step.result.threw
            /\ Install(step.db)
            /\ last' = step.result
            /\ schedBatch' = RestOfBatch(schedBatch, step.result)
            /\ dbFailures' = dbFailures + Failing(fail)
  /\ verdict' = NoVerdict
  /\ UNCHANGED <<now, injQueue, injQueueB, injResults, inbound, scheduler>>

\* a turn of the loop of a tick that is not suspended
TickStepWhole == ~Suspended /\ TickStep

NextSuspend ==
  \/ InjectBegin
  \/ InjectStep
  \/ TickBeginDuringDrain
  \/ TickStepWhole
  \/ TickStepSuspend
  \/ TickStepResume

SpecSuspend == InitOverlap /\ [][NextSuspend]_vars

(***************************************************************************)
(* An inbound text handled while a tick or a drain is in flight: the       *)
(* webhook is served while processMessageQueue or processInjectionQueue    *)
(* waits for the transport, for the database or for its delay between two  *)
(* rows                                                                    *)
(***************************************************************************)
\* the keywords that toggle the lifecycle status
LifecycleTexts == {<<"S", "T", "O", "P">>, <<"S", "T", "A", "R", "T">>}

\* the SMS webhook: processIncomingMessage, between two turns of a loop
HandleReplyInFlight ==
  /\ schedBatch # <<>> \/ injQueue # <<>>
  /\ inbound < MaxReplies
  /\ Len(message_history) < MaxHistory
  /\ \E phoneNumber \in {Phone1, Phone2}, messageBody \in LifecycleTexts,
        ok \in BOOLEAN, fail \in ReplyFailures :
       LET reply == processIncomingMessage(DB, phoneNumber, messageBody, now, ok, fail)
       IN /\ MayFail(fail)
          /\ fail # "none" => reply.result.threw
          /\ Install(reply.db)
          /\ last' = reply.result
          /\ dbFailures' = dbFailures + Failing(fail)
  /\ inbound' = inbound + 1
  /\ UNCHANGED <<now, schedBatch, injQueue, injQueueB, injResults, verdict, scheduler>>

NextInFlight == TickBegin \/ TickStep \/ InjectBegin \/ InjectStep \/ HandleReplyInFlight

SpecInFlight == InitOverlap /\ [][NextInFlight]_vars

(***************************************************************************)
(* Properties                                                              *)
(***************************************************************************)
\* the recipient's Daily Counter for the local calendar date of instant t
LocalDailyCount(limits, phone, t) ==
  DailyCount(limits, phone, LocalDate(users[phone].timezone, t))

LastLocalHour == LocalHour(users[last.phone].timezone, now)
LastLocalMinute == LocalMinute(users[last.phone].timezone, now)
LastLocalWeekday == LocalWeekday(users[last.phone].timezone, now)

HourReasons == {"Outside sending hours", "Outside sending hours (9 AM - 6 PM)"}
PolicyReasons == HourReasons \cup {"Sunday rest day", "Daily limit reached (4 messages)"}

\* C1: with ticks and drains run one at a time, a step of a tick or of a drain
\* calls the transport only while the recipient's Daily Counter for the local
\* calendar date is below 4, and once it is 4 or more the step is rejected with
\* a reason, without a transport call and without a change to the recipient, the
\* counters or the delivery records.
C1_DailyCapStep ==
  last'.op \in {"tick", "drain"} =>
     LET count == LocalDailyCount(daily_limits, last'.phone, now)
     IN /\ last'.called => count < 4
        /\ (count >= 4 /\ ~last'.threw) =>
             /\ ~last'.called
             /\ last'.reason # NULL
             /\ users' = users
             /\ daily_limits' = daily_limits
             /\ message_history' = message_history

C1_DailyCap == [][C1_DailyCapStep]_vars

\* C2: a step of a tick or of a drain calls the transport only when the hour
\* in the recipient's own timezone is in [9,18); outside it the step is
\* rejected with a policy reason, and inside it no step is rejected for the hour.
C2_TimeWindow ==
  last.op \in {"tick", "drain"} =>
     /\ last.called => (9 <= LastLocalHour /\ LastLocalHour < 18)
     /\ ((LastLocalHour < 9 \/ LastLocalHour >= 18) /\ ~last.threw) =>
          (~last.called /\ last.reason \in PolicyReasons)
     /\ (9 <= LastLocalHour /\ LastLocalHour < 18) => last.reason \notin HourReasons

\* a scheduled message went out at 9:00 of the recipient's clock
C2_Witness ==
  /\ last.op = "tick"
  /\ last.sent
  /\ LastLocalHour = 9
  /\ LastLocalMinute = 0

VerdictElapsed ==
  verdict.at - (IF verdict.user.last_message_sent # NoTime
                  THEN verdict.user.last_message_sent ELSE verdict.user.date_joined)

\* whole days between the evaluation and the join
VerdictDay == (verdict.at - verdict.user.date_joined) \div MinPerDay

Evaluated(userType) == verdict.at # NoTime /\ verdict.user.user_type = userType

\* C4: for a trial recipient with fewer than 7 trial messages sent, the
\* evaluator answers due exactly when at least one whole day has passed since
\* the last send (the join when nothing was sent), and then selects the trial
\* position after the count.
C4_TrialEligibility ==
  (Evaluated("trial") /\ verdict.user.trial_messages_sent < 7) =>
     /\ verdict.isDue.due <=> VerdictElapsed >= MinPerDay
     /\ verdict.isDue.due =>
          /\ verdict.isDue.messageType = "trial"
          /\ verdict.isDue.position = verdict.user.trial_messages_sent + 1

\* a trial recipient with 6 sent, exactly one day after the last send: due, position 7
C4_Witness ==
  /\ Evaluated("trial")
  /\ verdict.user.trial_messages_sent = 6
  /\ VerdictElapsed = MinPerDay
  /\ verdict.isDue.due
  /\ verdict.isDue.position = 7

\* C5: for a trial recipient with 7 or more trial messages sent, on the days
\* 8..17 since the join the evaluator answers due exactly on days 8, 10, 13 and
\* 17, with the phase-1 selector, and not due on the other days.
C5_PostTrialPhase1 ==
  (Evaluated("trial") /\ verdict.user.trial_messages_sent >= 7
   /\ VerdictDay \in 8..17) =>
     /\ verdict.isDue.due <=> VerdictDay \in {8, 10, 13, 17}
     /\ verdict.isDue.due => verdict.isDue.messageType = "post-trial-phase1"

\* day 8 since the join: due with the first phase-1 message
C5_Witness ==
  /\ Evaluated("trial")
  /\ verdict.user.trial_messages_sent >= 7
  /\ VerdictDay = 8
  /\ verdict.isDue.due
  /\ verdict.isDue.messageId = "ptmb1"

\* C6: for a trial recipient with 7 or more trial messages sent, after day 17
\* since the join the evaluator answers due exactly on days 25, 33, 41 (phase
\* 2), 71, 101, 131 (phase 3) and 191 plus a multiple of 60 (phase 4).
C6_PostTrialPhases ==
  (Evaluated("trial") /\ verdict.user.trial_messages_sent >= 7 /\ VerdictDay > 17) =>
     /\ verdict.isDue.due <=>
          \/ VerdictDay \in {25, 33, 41}
          \/ VerdictDay \in {71, 101, 131}
          \/ (VerdictDay >= 191 /\ (VerdictDay - 191) % 60 = 0)
     /\ VerdictDay \in {25, 33, 41} => verdict.isDue.messageType = "post-trial-phase2"
     /\ VerdictDay \in {71, 101, 131} => verdict.isDue.messageType = "post-trial-phase3"
     /\ verdict.isDue.due /\ VerdictDay >= 191 =>
          verdict.isDue.messageType = "post-trial-phase4"
     /\ VerdictDay \in {190, 192} => ~verdict.isDue.due

\* day 191 since the join: due in phase 4
C6_Witness ==
  /\ Evaluated("trial")
  /\ verdict.user.trial_messages_sent >= 7
  /\ VerdictDay = 191
  /\ verdict.isDue.due
  /\ verdict.isDue.messageType = "post-trial-phase4"

\* the row of the batch a step of the tick is about to check
Checked == Head(schedBatch)

\* C7: for a subscriber at position p <= 30 the evaluator answers due exactly
\* when at least one day has passed since the last send, with the sequence
\* selector p; and the template a tick then dispatches is the one numbered p in
\* the recipient's program.
C7_SequentialStep ==
  /\ (verdict'.at # NoTime /\ verdict'.user.user_type = "subscriber"
      /\ verdict'.user.current_sequence_position <= 30) =>
       /\ verdict'.isDue.due <=> VerdictElapsed' >= MinPerDay
       /\ verdict'.isDue.due =>
            /\ verdict'.isDue.messageType = "sequence"
            /\ verdict'.isDue.position = verdict'.user.current_sequence_position
  /\ (last'.op = "tick" /\ last'.called /\ Checked.user_type = "subscriber"
      /\ Checked.current_sequence_position <= 30) =>
       /\ messages[last'.messageId].number = Checked.current_sequence_position
       /\ messages[last'.messageId].protocol = Checked.protocol

C7_SequentialPhase == [][C7_SequentialStep]_vars

\* a subscriber at position 30 got template 30 and moved to position 31
C7_Witness ==
  /\ last.op = "tick"
  /\ last.sent
  /\ last.messageId = "30"
  /\ users[last.phone].current_sequence_position = 31

\* C8: for a subscriber at a position above 30 the evaluator answers due
\* exactly when at least two days have passed since the last send; the template
\* a tick then dispatches is active, has no number and is of the recipient's
\* program, and the step leaves the position as it was.
C8_AlgorithmStep ==
  /\ (verdict'.at # NoTime /\ verdict'.user.user_type = "subscriber"
      /\ verdict'.user.current_sequence_position > 30) =>
       /\ verdict'.isDue.due <=> VerdictElapsed' >= 2 * MinPerDay
       /\ verdict'.isDue.due => verdict'.isDue.messageType = "algorithm"
  /\ (last'.op = "tick" /\ Checked.user_type = "subscriber"
      /\ Checked.current_sequence_position > 30) =>
       /\ users'[last'.phone].current_sequence_position = Checked.current_sequence_position
       /\ last'.called =>
            /\ messages[last'.messageId].active = 1
            /\ messages[last'.messageId].number = NullNumber
            /\ messages[last'.messageId].protocol = Checked.protocol

C8_AlgorithmMode == [][C8_AlgorithmStep]_vars

\* a subscriber at position 31 got an unnumbered template and stays at 31
C8_Witness ==
  /\ last.op = "tick"
  /\ last.sent
  /\ last.messageId \in {"alg1", "alg2"}
  /\ users[last.phone].current_sequence_position = 31

\* C9: in a step of a tick, when the transport send succeeds the recipient's
\* Daily Counter and total each grow by 1, the last-send time is set, and the
\* trial counter (trial send) or the position (sequential send) grows by 1 and
\* the other stays; when the send fails, a policy check rejects or no template
\* is found, none of these fields change.
C9_ProgressStep ==
  last'.op = "tick" =>
     LET phone == Checked.phone_number
         before == users[phone]
         after == users'[phone]
         trialSend == Checked.user_type = "trial" /\ Checked.trial_messages_sent < 7
         sequenceSend == Checked.user_type = "subscriber"
                         /\ Checked.current_sequence_position <= 30
     IN IF last'.called /\ last'.reason # "Send failed"
          THEN /\ LocalDailyCount(daily_limits', phone, now) =
                    LocalDailyCount(daily_limits, phone, now) + 1
               /\ after.total_messages_sent = before.total_messages_sent + 1
               /\ after.last_message_sent = now
               /\ after.trial_messages_sent =
                    before.trial_messages_sent + (IF trialSend THEN 1 ELSE 0)
               /\ after.current_sequence_position =
                    before.current_sequence_position + (IF sequenceSend THEN 1 ELSE 0)
        ELSE /\ daily_limits' = daily_limits
             /\ after.total_messages_sent = before.total_messages_sent
             /\ after.last_message_sent = before.last_message_sent
             /\ after.trial_messages_sent = before.trial_messages_sent
             /\ after.current_sequence_position = before.current_sequence_position

C9_ProgressOnlyOnSuccess == [][C9_ProgressStep]_vars

ReplyCommands == {STOP, START, RESET}

\* the recipient is in AwaitingResponse, within 24 hours, for a template that
\* lists options
AwaitingReply(phone) ==
  /\ phone \in DOMAIN users
  /\ users[phone].awaiting_response # NULL
  /\ now <= users[phone].awaiting_response_since + 24 * MinPerHour
  /\ users[phone].awaiting_response \in DOMAIN messages
  /\ messages[users[phone].awaiting_response].active = 1
  /\ extractResponseOptions(messages[users[phone].awaiting_response].message) # <<>>

\* C10: an inbound text is handled as a system command when it is STOP, START
\* or RESET; else as a crisis keyword when it is one; else as an interactive
\* reply when the recipient is in AwaitingResponse; else by the fallback.  The
\* recipient's state never moves a command or a crisis keyword down the order.
C10_ReplyStep ==
  (last'.op = "reply" /\ ~last'.threw) =>
     LET text == last'.text
         command == text \in ReplyCommands
         crisis == ~command /\ text \in DOMAIN crisisKeywords
         interactive == ~command /\ ~crisis /\ AwaitingReply(last'.phone)
     IN /\ command <=> last'.action \in {"stopped", "started", "reset", "reset_denied"}
        /\ crisis <=> last'.action = "crisis_support"
        /\ interactive <=> last'.action \in {"interactive_response", "invalid_response"}
        /\ (~command /\ ~crisis /\ ~interactive) <=> last'.action = "unrecognized"

C10_ReplyPriority == [][C10_ReplyStep]_vars

\* a recipient in AwaitingResponse sent a crisis keyword and got crisis support
C10_Witness ==
  /\ last.op = "reply"
  /\ last.action = "crisis_support"
  /\ AwaitingReply(last.phone)

\* the step handled an inbound text and no database call of it was rejected
Replied == last'.op = "reply" /\ dbFailures' = dbFailures

\* the text of the step is neither a system command nor a crisis keyword
PlainReply == last'.text \notin ReplyCommands /\ last'.text \notin DOMAIN crisisKeywords

\* C11: for a recipient in AwaitingResponse(id, since) within 24 hours whose
\* template lists options O, a reply that is not in O is answered with the
\* reprompt and leaves AwaitingResponse(id, since) as it was; a reply L in O is
\* answered with the template id + lowercase(L) when the catalog holds it
\* active, else with the generic acknowledgment, and leaves the recipient Idle.
C11_InteractiveStep ==
  (Replied /\ PlainReply /\ AwaitingReply(last'.phone)) =>
     LET phone == last'.phone
         awaited == users[phone].awaiting_response
         options == extractResponseOptions(messages[awaited].message)
         inOptions == /\ Len(last'.text) = 1
                      /\ \E i \in 1..Len(options) : options[i] = last'.text[1]
         followUp == awaited \o LowerChar(last'.text[1])
     IN IF ~inOptions
          THEN /\ last'.action = "invalid_response"
               /\ last'.called
               /\ last'.messageId = "invalid_response"
               /\ users'[phone].awaiting_response = awaited
               /\ users'[phone].awaiting_response_since =
                    users[phone].awaiting_response_since
        ELSE /\ last'.action = "interactive_response"
             /\ last'.called
             /\ last'.messageId =
                  (IF followUp \in DOMAIN messages /\ messages[followUp].active = 1
                     THEN followUp ELSE "generic_followup")
             /\ users'[phone].awaiting_response = NULL
             /\ users'[phone].awaiting_response_since = NoTime

C11_InteractiveValidation == [][C11_InteractiveStep]_vars

\* reply "b" to template 30 was answered with template 30b and the recipient is Idle
C11_Witness ==
  /\ last.op = "reply"
  /\ last.action = "interactive_response"
  /\ last.messageId = "30b"
  /\ users[last.phone].awaiting_response = NULL

\* C12: when the recipient is in AwaitingResponse(id, since) and more than 24
\* hours have passed since `since`, an inbound text that is neither a system
\* command nor a crisis keyword (a letter of the options included) clears the
\* state to Idle, is not taken for an interactive reply, and is answered by the
\* fallback, handled, without an error.
C12_ExpiryStep ==
  (Replied /\ PlainReply /\ last'.phone \in DOMAIN users
   /\ users[last'.phone].awaiting_response # NULL
   /\ now > users[last'.phone].awaiting_response_since + 24 * MinPerHour) =>
     /\ users'[last'.phone].awaiting_response = NULL
     /\ users'[last'.phone].awaiting_response_since = NoTime
     /\ last'.action = "unrecognized"
     /\ last'.messageId = "unrecognized_response"
     /\ last'.sent
     /\ ~last'.threw

C12_StateExpiry == [][C12_ExpiryStep]_vars

\* the recipient whose template 30 went out 24 hours and a minute ago sent "A",
\* an option of the template, got the fallback and is Idle
C12_Witness ==
  /\ last.op = "reply"
  /\ last.text = <<"A">>
  /\ last.action = "unrecognized"
  /\ last.phone = Phone1
  /\ users[Phone1].last_message_sent = ReplyNow - MinPerDay - 1
  /\ users[Phone1].awaiting_response = NULL

\* C13: handling STOP leaves the recipient stopped with the recorded pre-stop
\* position equal to the sequence position, and returns handled; handling STOP
\* again, right after, leaves every recipient as the first STOP left it and
\* returns handled without an error; a STOP of a recipient who is stopped
\* already changes no recipient.
C13_StopStep ==
  (Replied /\ last'.text = STOP) =>
     LET phone == last'.phone
     IN /\ last'.action = "stopped"
        /\ last'.sent
        /\ ~last'.threw
        /\ phone \in DOMAIN users =>
             /\ users'[phone].subscription_status = "stopped"
             /\ users'[phone].stopped_at_position = users[phone].current_sequence_position
             /\ users'[phone].current_sequence_position =
                  users[phone].current_sequence_position
             /\ users[phone].subscription_status = "stopped" => users' = users
        /\ \A ok \in BOOLEAN :
             LET again == processIncomingMessage(DB', phone, STOP, now, ok, "none")
             IN /\ again.db.users = users'
                /\ again.result.action = "stopped"
                /\ again.result.sent
                /\ ~again.result.threw

C13_StopIdempotent == [][C13_StopStep]_vars

\* a subscriber at position 31 sent STOP: stopped, with position 31 recorded
C13_Witness ==
  /\ last.op = "reply"
  /\ last.action = "stopped"
  /\ last.phone = Phone1
  /\ users[Phone1].subscription_status = "stopped"
  /\ users[Phone1].stopped_at_position = 31

\* C14: handling START sets the status to trial when the recipient class is
\* trial and to active otherwise, and changes no other field of the recipient
\* and no Daily Counter; and START handled right after the STOP of a recipient
\* who was neither stopped nor expired gives back the status held before the STOP.
C14_StartStep ==
  /\ (Replied /\ last'.text = START) =>
       /\ last'.action = "started"
       /\ last'.sent
       /\ daily_limits' = daily_limits
       /\ DOMAIN users' = DOMAIN users
       /\ \A p \in DOMAIN users :
            users'[p] =
              IF p = last'.phone
                THEN [users[p] EXCEPT !.subscription_status =
                        IF users[p].user_type = "trial" THEN "trial" ELSE "active"]
              ELSE users[p]
  /\ (Replied /\ last'.text = STOP /\ last'.phone \in DOMAIN users
      /\ users[last'.phone].subscription_status \notin {"stopped", "expired"}) =>
       \A ok \in BOOLEAN :
          LET started == processIncomingMessage(DB', last'.phone, START, now, ok, "none")
          IN /\ started.result.action = "started"
             /\ started.db.users[last'.phone].subscription_status =
                  users[last'.phone].subscription_status

C15_ResetStep ==
  (Replied /\ last'.text = RESET) =>
     LET phone == last'.phone
     IN IF phone \notin DOMAIN users \/ users[phone].user_type # "subscriber"
          THEN /\ users' = users
               /\ last'.action = "reset_denied"
               /\ last'.called
               /\ last'.messageId = "reset_denied"
        ELSE /\ users' = [users EXCEPT ![phone] =
                            [@ EXCEPT !.current_sequence_position = 1,
                                      !.trial_messages_sent = 0,
                                      !.subscription_status = "active"]]
             /\ last'.action = "reset"

C15_Reset == [][C15_ResetStep]_vars

\* a subscriber at position 31 with 3 trial messages counted sent RESET
C15_Witness ==
  /\ last.op = "reply"
  /\ last.action = "reset"
  /\ users[last.phone].current_sequence_position = 1
  /\ users[last.phone].trial_messages_sent = 0
  /\ users[last.phone].total_messages_sent = 30

\* C16: after a crisis keyword has been handled, the reply send included, the
\* recipient's AwaitingResponse state is what it was before.
C16_CrisisStep ==
  (last'.op = "reply" /\ last'.action = "crisis_support"
   /\ last'.phone \in DOMAIN users) =>
     /\ users'[last'.phone].awaiting_response = users[last'.phone].awaiting_response
     /\ users'[last'.phone].awaiting_response_since =
          users[last'.phone].awaiting_response_since

C16_CrisisKeepsState == [][C16_CrisisStep]_vars

\* C17: every inbound text, from a known or an unknown sender, gets a result;
\* the result is handled unless a database call of the handler was rejected,
\* and a failure of the transport alone leaves it handled.
C17_AcknowledgedStep ==
  last'.op = "reply" =>
     /\ last'.sent <=> ~last'.threw
     /\ last'.threw => dbFailures' > dbFailures
     /\ (last'.called /\ last'.reason # "delivered" /\ dbFailures' = dbFailures) =>
          last'.sent

C17_AlwaysAcknowledged == [][C17_AcknowledgedStep]_vars

\* an unknown sender's text was handled although the transport failed
C17_Witness ==
  /\ last.op = "reply"
  /\ last.phone = UnknownPhone
  /\ last.called
  /\ last.reason # "delivered"
  /\ last.sent

TerminalStatuses == {"sent", "skipped", "failed"}

\* C18: when an inject call returns, every row its drain loaded as pending is
\* sent, skipped or failed; and a row that is sent, skipped or failed keeps
\* its status in every later step.
C18_TerminalStep ==
  /\ injResults'.state = "returned" =>
       \A id \in injResults'.pendingMessages :
          pending_messages'[id].status \in TerminalStatuses
  /\ \A id \in 1..Len(pending_messages) :
       pending_messages[id].status \in TerminalStatuses =>
          pending_messages'[id].status = pending_messages[id].status

C18_PendingBecomeTerminal == [][C18_TerminalStep]_vars

\* the reasons with which the hour window or the daily cap rejects an injection
InjectionPolicyReasons ==
  {"Outside sending hours (9 AM - 6 PM)", "Daily limit reached (4 messages)"}

\* C19: the row a step of a drain has processed is skipped only when the hour
\* window or the daily cap rejected it, is failed whenever the transport send
\* returned failure or a database call of the step was rejected, and is sent
\* only when the transport send succeeded.
C19_OutcomeStep ==
  (last'.op = "drain" /\ injQueue # <<>>) =>
     LET status == pending_messages'[Head(injQueue).id].status
         transportFailed == last'.called /\ last'.reason = "Send failed"
     IN /\ status = "skipped" => last'.reason \in InjectionPolicyReasons
        /\ (transportFailed \/ dbFailures' > dbFailures) => status = "failed"
        /\ status = "sent" => (last'.called /\ ~transportFailed)

C19_OutcomeClassification == [][C19_OutcomeStep]_vars

\* the recipients an inject call with program filter P finds
InjectionCohort(protocol) ==
  {p \in DOMAIN users :
     /\ users[p].subscription_status \notin {"stopped", "expired"}
     /\ (protocol # "ALL" => users[p].protocol = protocol)}

Counted(results) == results.messagesSent + results.messagesSkipped + results.errors

\* C20: an inject call with program filter P reports as recipientsFound the
\* number of recipients neither stopped nor expired whose program is P (all of
\* them without a filter), and as queued the same number when no queue insert
\* is rejected; every row a step of the drain processes is counted in exactly
\* one of sent, skipped and failed; and when the call returns,
\* sent + skipped + |failed| = queued.
C20_AccountingStep ==
  /\ (injQueue = <<>> /\ injResults'.state \in {"draining", "returned"}) =>
       /\ injResults'.usersFound = Cardinality(InjectionCohort(injResults'.protocol))
       /\ dbFailures' = dbFailures => injResults'.usersQueued = injResults'.usersFound
  /\ (last'.op = "drain" /\ injQueue # <<>>) =>
       Counted(injResults') = Counted(injResults) + 1
  /\ injResults'.state = "returned" => Counted(injResults') = injResults'.usersQueued

C20_ResultAccounting == [][C20_AccountingStep]_vars

\* the row of the drain a step is about to process
Processed == Head(injQueue)

\* C21: in a step of a drain, a row that ends as sent has raised the
\* recipient's Daily Counter and total by 1 and set the last-send time, and has
\* left the sequence position, the trial counter, the recipient class and the
\* lifecycle status as they were; a row that ends as skipped or failed has
\* changed no field of the recipient.
C21_InjectionStep ==
  (last'.op = "drain" /\ injQueue # <<>>) =>
     LET phone == Processed.phone_number
         before == users[phone]
         after == users'[phone]
     IN IF pending_messages'[Processed.id].status = "sent"
          THEN /\ LocalDailyCount(daily_limits', phone, now) =
                    LocalDailyCount(daily_limits, phone, now) + 1
               /\ after.total_messages_sent = before.total_messages_sent + 1
               /\ after.last_message_sent = now
               /\ after.current_sequence_position = before.current_sequence_position
               /\ after.trial_messages_sent = before.trial_messages_sent
               /\ after.user_type = before.user_type
               /\ after.subscription_status = before.subscription_status
        ELSE after = before

C21_InjectionNoProgress == [][C21_InjectionStep]_vars

\* row a is not after row b in ascending priority, then ascending creation time
InDrainOrder(a, b) ==
  \/ a.priority < b.priority
  \/ a.priority = b.priority /\ a.created_timestamp <= b.created_timestamp

\* the ids of the pending rows of known recipients
PendingIds(pending) ==
  {i \in 1..Len(pending) : pending[i].status = "pending" /\ pending[i].phone_number \in DOMAIN users}

\* the drain whose queue goes from queue to queue' loads every pending row in
\* the order, then takes the rows one at a time from the front: the row it
\* processes is not after any row it still holds, and it is the only row whose
\* status the step can change
DrainInOrder(queue, queueAfter) ==
  /\ (queue = <<>> /\ queueAfter # <<>>) =>
       /\ {queueAfter[i].id : i \in 1..Len(queueAfter)} = PendingIds(pending_messages')
       /\ \A i, j \in 1..Len(queueAfter) : i < j => InDrainOrder(queueAfter[i], queueAfter[j])
  /\ (queue # <<>> /\ queueAfter # queue) =>
       /\ last'.op = "drain"
       /\ last'.phone = Head(queue).phone_number
       /\ \A i \in 1..Len(queue) : InDrainOrder(Head(queue), queue[i])
       /\ queueAfter \in {Tail(queue), <<>>}
       /\ \A id \in 1..Len(pending_messages) :
            pending_messages'[id].status # pending_messages[id].status => id = Head(queue).id

\* C22: a drain loads all pending rows in ascending priority and, for equal
\* priority, ascending creation time, and processes them strictly one after
\* another from the front of that order: no row is processed while the drain
\* holds a row that precedes it.
C22_DrainStep == DrainInOrder(injQueue, injQueue') /\ DrainInOrder(injQueueB, injQueueB')

C22_DrainOrder == [][C22_DrainStep]_vars

\* a drain has processed a row of priority 0 and holds a row of priority 1
\* that was queued a minute earlier
C22_Witness ==
  /\ last.op = "drain"
  /\ \E i \in 1..Len(pending_messages), k \in 1..Len(injQueueB) :
       /\ pending_messages[i].priority = 0
       /\ pending_messages[i].status # "pending"
       /\ injQueueB[k].priority = 1
       /\ injQueueB[k].created_timestamp < pending_messages[i].created_timestamp

\* the recipients neither stopped nor expired
EligiblePhones ==
  {p \in DOMAIN users : users[p].subscription_status \notin {"stopped", "expired"}}

\* C23: a tick loads the recipients neither stopped nor expired, each once, in
\* ascending join time; every step of the tick checks the first recipient still
\* to be checked and leaves the others to be checked, also when the check
\* fails in the transport or in the database, so that the tick ends after as
\* many steps as the batch has recipients.
C23_TickStep ==
  /\ (schedBatch = <<>> /\ schedBatch' # <<>>) =>
       /\ {schedBatch'[i].phone_number : i \in 1..Len(schedBatch')} = EligiblePhones
       /\ Len(schedBatch') = Cardinality(EligiblePhones)
       /\ \A i, j \in 1..Len(schedBatch') :
            i < j => schedBatch'[i].date_joined <= schedBatch'[j].date_joined
  /\ (schedBatch # <<>> /\ schedBatch' # schedBatch) =>
       /\ last'.op = "tick"
       /\ last'.phone = Head(schedBatch).phone_number
       /\ schedBatch' = Tail(schedBatch)

C23_SchedulerIsolation == [][C23_TickStep]_vars

\* a tick has sent to its last recipient after the send to an earlier
\* recipient was recorded and the update of that recipient rejected
C23_Witness ==
  /\ last.op = "tick"
  /\ last.sent
  /\ schedBatch = <<>>
  /\ pending_messages = <<>>
  /\ dbFailures = 1
  /\ Len(message_history) = 2
  /\ message_history[1].phone_number # last.phone
  /\ users[message_history[1].phone_number].last_message_sent < now - MinPerDay

\* C24: in a drain, whatever happens to one row (the transport fails, a
\* database call is rejected, the write of the row's final status included), the
\* rows after it are still processed, and when the drain ends every row it
\* loaded is sent, skipped or failed.
C24_IsolationStep ==
  (last'.op = "drain" /\ injQueue # <<>>) =>
     /\ injQueue' = Tail(injQueue)
     /\ injQueue' = <<>> =>
          \A id \in injResults.pendingMessages :
             pending_messages'[id].status \in TerminalStatuses

C24_InjectorIsolation == [][C24_IsolationStep]_vars

\* the step begins a tick
TickBegins == schedBatch = <<>> /\ schedBatch' # <<>>

\* C25: no tick begins while the scheduler is stopped, that is between a
\* stop() and the next start(), however soon after start() the stop() came;
\* stop() leaves the tick in flight alone, and that tick goes on through its
\* batch.
C25_CancellationStep ==
  /\ TickBegins => scheduler.isRunning
  /\ (scheduler.isRunning /\ ~scheduler'.isRunning) => schedBatch' = schedBatch
  /\ (schedBatch # <<>> /\ schedBatch' # schedBatch) => schedBatch' = Tail(schedBatch)

C25_Cancellation == [][C25_CancellationStep]_vars

\* C26: every tick begins at a moment whose hour on the scheduler's clock is
\* in 8..19, whatever the time at which start() was called.
C26_WindowStep ==
  TickBegins => LocalHour("America/Chicago", now) \in 8..19

C26_ActiveWindow == [][C26_WindowStep]_vars

\* the key of the recipient's Daily Counter at instant t: the calendar date in
\* the recipient's own timezone
LocalKey(phone, t) == <<phone, LocalDate(users[phone].timezone, t)>>

\* C27: a step of a tick or of a drain reads and increments the recipient's
\* Daily Counter under the calendar date of the recipient's own timezone: the
\* only counter a step changes is that of (recipient, local date), a step is
\* rejected for the cap only when that counter is 4 or more and sends only
\* when it is below 4; and no counter of a (recipient, date) ever decreases.
C27_LocalDateStep ==
  /\ \A k \in DOMAIN daily_limits :
       k \in DOMAIN daily_limits' /\ daily_limits'[k] >= daily_limits[k]
  /\ last'.op \in {"tick", "drain"} =>
       /\ \A k \in DOMAIN daily_limits' :
            (k \notin DOMAIN daily_limits \/ daily_limits'[k] # daily_limits[k]) =>
               k = LocalKey(last'.phone, now)
       /\ last'.reason = "Daily limit reached (4 messages)" =>
            LocalDailyCount(daily_limits, last'.phone, now) >= 4
       /\ last'.called => LocalDailyCount(daily_limits, last'.phone, now) < 4

C27_LocalDateKey == [][C27_LocalDateStep]_vars

StoredCount(counters, k) == IF k \in DOMAIN counters THEN counters[k] ELSE 0

\* the row of a tick was loaded before another step updated the recipient
LoadedRowIsStale ==
  /\ schedBatch # <<>>
  /\ Head(schedBatch).phone_number \in DOMAIN users
  /\ Head(schedBatch).total_messages_sent <
       users[Head(schedBatch).phone_number].total_messages_sent

\* C28 (as stated): when a drain has updated a recipient between the load of
\* a tick and that tick's update of the same recipient, the tick's
\* read-modify-write loses the drain's update: after the tick's send the
\* recipient's total is the loaded total plus 1, less than the sends made.
C28_LostUpdateStep ==
  (last'.op = "tick" /\ last'.sent /\ LoadedRowIsStale) =>
     users'[last'.phone].total_messages_sent =
        Head(schedBatch).total_messages_sent + 1

C28_InPlaceStep ==
  last'.op \in {"tick", "drain"} =>
     /\ \A p \in DOMAIN users :
          /\ users'[p].total_messages_sent - users[p].total_messages_sent \in {0, 1}
          /\ users'[p].current_sequence_position -
               users[p].current_sequence_position \in {0, 1}
     /\ \A k \in DOMAIN daily_limits' :
          daily_limits'[k] - StoredCount(daily_limits, k) \in {0, 1}
     /\ last'.sent =>
          /\ users'[last'.phone].total_messages_sent =
               users[last'.phone].total_messages_sent + 1
          /\ \E k \in DOMAIN daily_limits' :
               /\ k[1] = last'.phone
               /\ daily_limits'[k] = StoredCount(daily_limits, k) + 1
     /\ (last'.op = "tick" /\ last'.sent /\ LoadedRowIsStale) =>
          users'[last'.phone].total_messages_sent >
             Head(schedBatch).total_messages_sent + 1

C29_LifecycleStep ==
  \A p \in DOMAIN users \cap DOMAIN users' :
     LET before == users[p].subscription_status
         after == users'[p].subscription_status
     IN /\ before = "expired" => after \notin {"active", "trial"}
        /\ (before # "expired" /\ after # before) =>
             \/ before # "stopped" /\ after = "stopped" /\ last'.action = "stopped"
             \/ /\ before = "stopped"
                /\ after \in {"active", "trial"}
                /\ last'.action \in {"started", "reset"}

C29_LifecycleMonotone == [][C29_LifecycleStep]_vars

Delivered(id) ==
  \E i \in 1..Len(message_history) : message_history[i].message_id = id

\* C30: no step changes a Message Template that a Delivery Record refers to:
\* its body, sequence number, program and active flag stay as they were, also
\* when an inject call names the id of the delivered template.
C30_TemplateStep ==
  \A id \in DOMAIN messages :
     Delivered(id) => id \in DOMAIN messages' /\ messages'[id] = messages[id]

C30_TemplateImmutable == [][C30_TemplateStep]_vars

IsDigit(c) == c \in Digits

DigitsOf(s) == SelectSeq(s, IsDigit)

\* the identifier of the normalization contract: "+" and the 11 digits, or NULL
ContractIdentifier(raw) ==
  LET digits == DigitsOf(raw)
      padded == IF Len(digits) = 10 THEN <<"1">> \o digits ELSE digits
  IN IF Len(padded) = 11 /\ padded[1] = "1" THEN <<"+">> \o padded ELSE NULL

\* two answers of a normalization are both NULL or the same identifier
SameIdentifier(a, b) == ((a = NULL) <=> (b = NULL)) /\ (a # NULL => a = b)

\* C31: normalize strips every non-digit, prepends 1 when exactly 10 digits
\* remain, and returns the identifier if and only if the result has 11 digits
\* and starts with 1, otherwise invalid; inputs with the same digits get the
\* same answer, and a normalized identifier is returned unchanged. The
\* synchronisation stores the recipient under that identifier and skips a
\* subscriber whose number is invalid.
C31_PhoneNormalization ==
  last.op = "sync" =>
     LET raw == last.text
         normalized == syncNormalizePhoneNumber(raw)
     IN /\ SameIdentifier(normalized, ContractIdentifier(raw))
        /\ last.action = "synced" =>
             normalized # NULL /\ last.phone = normalized /\ normalized \in DOMAIN users
        /\ last.action = "invalid" => normalized = NULL
        /\ \A other \in PhoneInputs :
             SameIdentifier(syncNormalizePhoneNumber(other), ContractIdentifier(other))
        /\ \A other \in PhoneInputs :
             DigitsOf(other) = DigitsOf(raw) =>
                SameIdentifier(syncNormalizePhoneNumber(other), normalized)
        /\ normalized # NULL => syncNormalizePhoneNumber(normalized) = normalized

\* a subscriber whose number is written (312) 555-0001 was stored as Phone1
C31_Witness ==
  /\ last.op = "sync"
  /\ last.action = "synced"
  /\ last.text = Phone1Local
  /\ last.phone = Phone1

\* C32: when the webhook receives a sender identifier that does not
\* normalize to 11 digits starting with 1, the call is rejected before any
\* state mutation: no field of a recipient changes, no Delivery Record is
\* appended and no transport send is attempted.
C32_InvalidStep ==
  (last'.op = "reply" /\ ContractIdentifier(last'.phone) = NULL) =>
     /\ users' = users
     /\ message_history' = message_history
     /\ ~last'.called

C32_InvalidRejected == [][C32_InvalidStep]_vars

Terminal(row) == row.status \in {"sent", "skipped", "failed"}

OlderThanRetention(row) == now - row.created_timestamp > 30 * MinPerDay

Rows(table) == {table[i] : i \in 1..Len(table)}

\* C33: a completed cleanup deletes exactly the injection rows whose status
\* is sent, skipped or failed and whose creation time is more than 30 days in
\* the past: it deletes no pending row and no row created within the last 30
\* days, keeps the other rows as they are and in their order, and changes no
\* other table.
C33_PurgeStep ==
  (last'.op = "cleanup" /\ ~last'.threw) =>
     /\ Rows(pending_messages') =
          {row \in Rows(pending_messages) : ~(Terminal(row) /\ OlderThanRetention(row))}
     /\ Len(pending_messages') = Cardinality(Rows(pending_messages'))
     /\ \A i, j \in 1..Len(pending_messages') :
          i < j => pending_messages'[i].id < pending_messages'[j].id
     /\ users' = users
     /\ daily_limits' = daily_limits
     /\ message_history' = message_history
     /\ messages' = messages

C33_RetentionPurge == [][C33_PurgeStep]_vars

\* a cleanup has deleted a failed row of 31 days and kept a pending row of the
\* same age and a sent row of 30 days to the minute
C33_Witness ==
  /\ last.op = "cleanup"
  /\ ~last.threw
  /\ Len(pending_messages) = 2
  /\ pending_messages[1].id = 2
  /\ pending_messages[1].status = "pending"
  /\ now - pending_messages[1].created_timestamp = 31 * MinPerDay
  /\ pending_messages[2].status = "sent"
  /\ now - pending_messages[2].created_timestamp = 30 * MinPerDay

\* the fixed template of a phase-1 day offset
Phase1Template(day) ==
  CASE day = 8 -> "ptmb1" [] day = 10 -> "ptmb2" [] day = 13 -> "ptmb3"
    [] day = 17 -> "ptmb4" [] OTHER -> NULL

\* C34: when a tick comes to a trial recipient with trial-sent counter >= 7
\* at day offset 8, 10, 13 or 17 since the join, the policy permits a send
\* (no rest day, inside the window, Daily Counter below 4) and the catalog
\* holds the active template of that day, and no database call is rejected,
\* the tick dispatches that template to the recipient and, when the transport
\* accepts it, records the send.
C34_Phase1Step ==
  (schedBatch # <<>> /\ last'.op = "tick" /\ dbFailures' = dbFailures) =>
     LET user == Head(schedBatch)
         phone == user.phone_number
         template == Phase1Template(DiffDays(now, user.date_joined))
     IN (/\ user.user_type = "trial"
         /\ user.trial_messages_sent >= 7
         /\ template \in DOMAIN messages
         /\ messages[template].active = 1
         /\ LocalWeekday(user.timezone, now) # 0
         /\ LocalHour(user.timezone, now) \in 9..17
         /\ LocalDailyCount(daily_limits, phone, now) < 4) =>
           /\ last'.called
           /\ last'.messageId = template
           /\ last'.sent =>
                message_history' = Append(message_history, HistoryRow(phone, template))

C34_Phase1Dispatch == [][C34_Phase1Step]_vars

SendsTo(phone) ==
  Cardinality({i \in 1..Len(message_history) : message_history[i].phone_number = phone})

\* C35: under every interleaving of the steps of scheduler ticks and injector
\* drains at their awaits, the number of successful sends, scheduled plus
\* injected, to a recipient on one local date never exceeds 4. The clock does
\* not move in these runs, so every Delivery Record is of the same date; the
\* property is stated for the runs in which no database call is rejected.
C35_CapUnderInterleaving ==
  dbFailures = 0 => \A phone \in DOMAIN users : SendsTo(phone) <= 4

\* the Delivery Records of a recipient, oldest first
RecordsOf(phone) ==
  SelectSeq(message_history, LAMBDA row : row.phone_number = phone)

\* C36: a tick does not dispatch a scheduled message to a trial recipient
\* with trial-sent counter >= 7 whose last send was a scheduled message of the
\* same day offset since the join: over the ticks of one due day at most one
\* scheduled message goes out. The property is stated for the runs in which
\* no database call is rejected.
C36_PostTrialStep ==
  (last'.op = "tick" /\ last'.sent /\ dbFailures' = 0) =>
     LET user == users[last'.phone]
         records == RecordsOf(last'.phone)
     IN ~(/\ user.user_type = "trial"
          /\ user.trial_messages_sent >= 7
          /\ user.last_message_sent # NoTime
          /\ DiffDays(user.last_message_sent, user.date_joined) =
               DiffDays(now, user.date_joined)
          /\ records # <<>>
          /\ records[Len(records)].message_id \notin InjectIds)

C36_OnePerDueDay == [][C36_PostTrialStep]_vars

\* C37: over start(), stop() and the firings of the ticks, with no RESET and
\* no rejected database call, a tick that sends a numbered template (a trial
\* or a sequence position) sends one the recipient has no Delivery Record of,
\* and the send advances the trial counter or the sequence position of the
\* recipient by exactly one.
C37_SequentialStep ==
  (/\ last'.op = "tick"
   /\ last'.sent
   /\ dbFailures' = 0
   /\ messages[last'.messageId].number # NullNumber) =>
     /\ ~\E i \in 1..Len(message_history) :
           /\ message_history[i].phone_number = last'.phone
           /\ message_history[i].message_id = last'.messageId
     /\ (users'[last'.phone].trial_messages_sent
           - users[last'.phone].trial_messages_sent)
        + (users'[last'.phone].current_sequence_position
             - users[last'.phone].current_sequence_position) = 1

C37_NoDuplicateSequential == [][C37_SequentialStep]_vars

\* C38: a tick or a drain never hands the transport a text for a recipient
\* whose stored status is stopped, which it is from the moment handleReply
\* has handled STOP until a START or RESET is handled, even when the tick or
\* drain had loaded its batch before the STOP
C38_StopStep ==
  (/\ last'.op \in {"tick", "drain"}
   /\ last'.called
   /\ last'.phone \in DOMAIN users) =>
     users[last'.phone].subscription_status # "stopped"

C38_StopImmediate == [][C38_StopStep]_vars

\* the row of pending_messages a turn of a drain has just handled
TurnOf(queue, queueAfter) == queue # <<>> /\ queueAfter # queue

\* C39: a drain never hands the transport a text for a Pending Injection row
\* whose stored status is sent, the status a row gets only after a send for
\* it: each row causes at most one transport send
C39_InjectionStep ==
  (last'.op = "drain" /\ last'.called) =>
     /\ TurnOf(injQueue, injQueue') =>
          pending_messages[Head(injQueue).id].status # "sent"
     /\ TurnOf(injQueueB, injQueueB') =>
          pending_messages[Head(injQueueB).id].status # "sent"

C39_AtMostOnceInjection == [][C39_InjectionStep]_vars

\* C40: a synchronisation of a WordPress subscriber who is already a recipient
\* keeps the join time, the sequence position, the total and trial counters
\* and the last-send time, leaves a stopped recipient with a terminal status,
\* and keeps the recorded pre-stop position and the AwaitingResponse state
C40_SyncStep ==
  (/\ last'.op = "sync"
   /\ last'.action = "synced"
   /\ last'.phone \in DOMAIN users) =>
     LET old == users[last'.phone]
         new == users'[last'.phone]
     IN /\ new.date_joined = old.date_joined
        /\ new.current_sequence_position = old.current_sequence_position
        /\ new.total_messages_sent = old.total_messages_sent
        /\ new.trial_messages_sent = old.trial_messages_sent
        /\ new.last_message_sent = old.last_message_sent
        /\ old.subscription_status = "stopped" =>
             new.subscription_status \notin {"active", "trial"}
        /\ new.stopped_at_position = old.stopped_at_position
        /\ new.awaiting_response = old.awaiting_response
        /\ new.awaiting_response_since = old.awaiting_response_since

C40_SyncPreservesState == [][C40_SyncStep]_vars
====
